---- MODULE Spec2Model ----
(***************************************************************************)
(* Model of the download orchestration engine of LainExBot                 *)
(* (src/managers.py, class DownloadManager): the asyncio task queue, the   *)
(* worker pool, the per-requester quota kept under one asyncio.Lock, the   *)
(* status life cycle of a task inside _handle_download, and stop().        *)
(*                                                                         *)
(* Scheduling is asyncio's: coroutines run on one thread and interleave    *)
(* only where an await really suspends.  An action of this module is one   *)
(* run of a coroutine between two such points.                             *)
(*   - asyncio.Queue() is unbounded, so "await queue.put(x)" never         *)
(*     suspends; "await queue.get()" suspends only on an empty queue.      *)
(*   - "async with lock" suspends only when the lock is held or has        *)
(*     waiters; asyncio.Lock is fair, the first waiter proceeds first.     *)
(*   - the only await made while holding the lock is the denial message    *)
(*     of add_download (managers.py line 72).                              *)
(*                                                                         *)
(* Two specifications share the module.                                    *)
(*   Spec      the pool: add_download, the workers, the quota, stop().     *)
(*             _handle_download touches nothing but its own locals, so a   *)
(*             worker is simply "running" a task until the call comes back *)
(*             (normally or with an exception the worker loop catches).    *)
(*   SpecTask  one call of _handle_download, statement by statement: the   *)
(*             status of the task, its temporary directory, the platform   *)
(*             dispatch and fallback loop of _download_content.            *)
(***************************************************************************)
EXTENDS Naturals, Sequences, FiniteSets

\* ---------------------------------------------------------------- bounds
\* max_concurrent: the constructor argument (config default 3, at least 1).
MaxConcurrent == 2
\* Number of requesters (Telegram user ids) that submit tasks.
NumUsers == 2
\* Number of front-end coroutines that may be inside add_download at once.
NumCallers == 2
\* Cap on task_counter: add_download is not invoked once it is reached.
MaxTasks == 3

Users == 1..NumUsers
Callers == 1..NumCallers

\* self._workers: one worker coroutine per unit of max_concurrent.
NumWorkers == MaxConcurrent
Workers == 1..NumWorkers

\* Process names, as they appear in the lock's waiter list.
W(w) == <<"w", w>>
C(c) == <<"c", c>>
NoProc == <<"none", 0>>

\* Queue entries.  A task entry is the tuple (task_id, callback_query, url,
\* mode) of line 81; the requester id is callback_query.from_user.id.  The
\* url and the mode do not influence the orchestration modelled here.
Sentinel == [id |-> 0, user |-> 0]
Item(t, u) == [id |-> t, user |-> u]
NoItem == [id |-> 0, user |-> 0]

VARIABLES
    \* ---- DownloadManager
    queue,          \* self.queue: sequence of entries, head is dequeued next
    lockHolder,     \* self.lock: the process holding it, or NoProc
    lockWaiters,    \* self.lock: the processes suspended in acquire(), in order
    processing,     \* self.processing
    task_counter,   \* self.task_counter
    active_tasks,   \* self.active_tasks: dict user -> set of task ids
    queued_tasks,   \* self.queued_tasks: dict user -> count
    wpc,            \* where each worker coroutine stands
    wtask,          \* the entry a worker has dequeued (item)
    cpc,            \* where each add_download call stands
    cuser,          \* the requester of the call a caller is making
    spc,            \* where stop() stands
    joined,         \* stop(): how many workers have been awaited
    stop_mark,      \* history: task_counter when stop() put its first sentinel
    started,        \* history: task ids in the order _mark_task_started ran
    quota_ev,       \* history: <<"denied", u>> once u was refused, then
                    \* <<"freed", u>> once a task of u finished, then
                    \* <<"readmitted", u>> once u was admitted again
    \* ---- one call of _handle_download
    h_pc,           \* the statement the call stands at
    h_mode,         \* argument mode: "video" or "audio"
    h_platform,     \* detect_platform(url): "direct", "tiktok" or "other"
    h_status,       \* task.status
    h_status_msg,   \* local status_msg is not None
    h_temp_dir,     \* "none" (temp_dir is None), "exists" or "removed"
    h_plan,         \* attempts: the TikTok plan being consumed
    h_i,            \* index of the plan entry being attempted
    h_last,         \* last_error of the TikTok loop
    h_file,         \* what the retrieval left: "none", "ok" or "big"
    h_err,          \* where the exception caught at line 166 came from
    h_text,         \* str(error) of that exception
    h_reported,     \* the category of the message sent at line 555
    h_ops,          \* history: the retrieval operations invoked so far, each
                    \* <<operation, plan index, outcome>>
    \* ---- the functions on texts, applied to one argument
    x_in,           \* the argument: a URL or the text of an exception
    x_canon,        \* _canonicalize_tiktok_video_url(x_in)
    x_canon2,       \* _canonicalize_tiktok_video_url(x_canon)
    x_plan,         \* _build_tiktok_attempt_plan(x_in)
    x_rec,          \* _is_tiktok_extraction_error(Exception(x_in))
    x_sup,          \* is_supported_url(x_in)
    x_platform,     \* detect_platform(x_in)
    x_msg,          \* to_user_message(Exception(x_in))
    x_dir,          \* the argument of _find_latest_file: the allowed
                    \* extensions and the entries of the directory
    x_found,        \* _find_latest_file(x_dir)
    \* ---- the front end: pending links and the download callback
    clock,          \* datetime.now().timestamp(), in the model's time unit
    pending_links,  \* BotHandlers.pending_links, by token
    last_cleanup,   \* BotHandlers._last_pending_cleanup
    cb_pc,          \* where the handle_download_callback call in progress stands
    cb_user,        \* callback.from_user.id
    cb_token,       \* the token of its callback data
    cb_case,        \* the branch it took
    cb_url,         \* the URL _resolve_pending_link returned to it
    cb_calls,       \* history: its calls of add_download
    cb_answers      \* history: the answers given to its callback

poolvars == <<queue, lockHolder, lockWaiters, processing, task_counter,
              active_tasks, queued_tasks, wpc, wtask, cpc, cuser, spc, joined,
              stop_mark, started, quota_ev>>
taskvars == <<h_pc, h_mode, h_platform, h_status, h_status_msg, h_temp_dir,
              h_plan, h_i, h_last, h_file, h_err, h_text, h_reported,
              h_ops>>
textvars == <<x_in, x_canon, x_canon2, x_plan, x_rec, x_sup, x_platform,
              x_msg, x_dir, x_found>>
linkvars == <<clock, pending_links, last_cleanup, cb_pc, cb_user, cb_token,
              cb_case, cb_url, cb_calls, cb_answers>>
vars == <<poolvars, taskvars, textvars, linkvars>>

quota == <<processing, task_counter, active_tasks, queued_tasks>>
callers == <<cpc, cuser>>
stopper == <<spc, joined, stop_mark>>
lock == <<lockHolder, lockWaiters>>
NoEvent == <<"none", 0>>

\* ------------------------------------------------------- dict operations
DictSet(d, k, v) == [x \in (DOMAIN d) \cup {k} |-> IF x = k THEN v ELSE d[x]]
DictPop(d, k) == [x \in (DOMAIN d) \ {k} |-> d[x]]
EmptyDict == [x \in {} |-> 0]

\* self.queued_tasks.get(user_id, 0)
GetQueued(q, u) == IF u \in DOMAIN q THEN q[u] ELSE 0
\* self.active_tasks.get(user_id, set())
GetActive(a, u) == IF u \in DOMAIN a THEN a[u] ELSE {}

\* get_user_active_downloads: active + queued of one requester
UserCount(a, q, u) == Cardinality(GetActive(a, u)) + GetQueued(q, u)

\* ------------------------------------------------------------ asyncio.Lock
\* acquire() returns at once only if the lock is free and nobody waits.
LockFree == lockHolder = NoProc /\ lockWaiters = <<>>

\* The lock after release(): it passes to the first waiter (asyncio.Lock is
\* fair: the coroutine that proceeds is the one that started waiting first),
\* or becomes free.
ReleasedHolder(ws) == IF ws = <<>> THEN NoProc ELSE Head(ws)
ReleasedWaiters(ws) == IF ws = <<>> THEN <<>> ELSE Tail(ws)

Release ==
    /\ lockHolder' = ReleasedHolder(lockWaiters)
    /\ lockWaiters' = ReleasedWaiters(lockWaiters)

\* ------------------------------------------------------------ add_download
\* One cap for all requesters together.
AdmitAllowedGlobal(a, q, u) ==
    ~(\E v \in Users :
         Cardinality(GetActive(a, v)) + GetQueued(q, v) >= MaxConcurrent)
\* Off by one: admits a requester that is exactly at the cap.
AdmitAllowedOffByOne(a, q, u) ==
    ~(Cardinality(GetActive(a, u)) + GetQueued(q, u) > MaxConcurrent)
\* Lines 69-71: the call is rejected if active + queued >= max_concurrent.
AdmitAllowed(a, q, u) ==
    ~(Cardinality(GetActive(a, u)) + GetQueued(q, u) >= MaxConcurrent)

\* The task id is taken before the cap is looked at.
TaskCounterTakenFirst(admitted, n) == n + 1
\* Lines 71-78: the refusal returns before "self.task_counter += 1".
TaskCounterAfter(admitted, n) == IF admitted THEN n + 1 ELSE n

\* Line 79: self.queued_tasks[user_id] = queued + 1
QueuedAfterAdmit(q, u) == DictSet(q, u, GetQueued(q, u) + 1)

\* Lines 68-82, run while holding the lock.  Admission releases the lock and
\* enqueues without suspending; a denial awaits the message to the requester
\* while still holding the lock.
DecideQuota(c, u) ==
    /\ task_counter' =
          TaskCounterAfter(AdmitAllowed(active_tasks, queued_tasks, u),
                           task_counter)
    /\ IF AdmitAllowed(active_tasks, queued_tasks, u)
       THEN /\ queued_tasks' = QueuedAfterAdmit(queued_tasks, u)
            /\ queue' = Append(queue, Item(task_counter + 1, u))
            /\ Release
            /\ cpc' = [cpc EXCEPT ![c] = "idle"]
            /\ cuser' = [cuser EXCEPT ![c] = 0]
            /\ quota_ev' = IF quota_ev = <<"freed", u>> THEN <<"readmitted", u>>
                            ELSE IF quota_ev[2] = u THEN NoEvent
                            ELSE quota_ev
       ELSE /\ cpc' = [cpc EXCEPT ![c] = "denying"]
            /\ cuser' = [cuser EXCEPT ![c] = u]
            /\ lockHolder' = C(c)
            /\ quota_ev' = <<"denied", u>>
            /\ UNCHANGED <<queued_tasks, queue, lockWaiters>>
    /\ UNCHANGED <<processing, active_tasks, wpc, wtask, stopper, started>>

\* The same decision within a call made on the manager alone.
Decide(c, u) ==
    /\ DecideQuota(c, u)
    /\ UNCHANGED <<taskvars, textvars, linkvars>>

\* Calls still to be decided, each of which may take a task id.
Pending == Cardinality({c \in Callers : cpc[c] = "lockwait"})

\* Lines 63-65: a mode other than "video"/"audio" is answered and refused
\* before the lock or any state is touched.
AddDownloadInvalidMode(c) ==
    /\ cpc[c] = "idle"
    /\ UNCHANGED vars

\* Lines 67-68: a call with a valid mode reaches "async with self.lock".
AcquireAndDecide(c, u) ==
    IF LockFree
    THEN DecideQuota(c, u)
    ELSE /\ lockWaiters' = Append(lockWaiters, C(c))
         /\ cpc' = [cpc EXCEPT ![c] = "lockwait"]
         /\ cuser' = [cuser EXCEPT ![c] = u]
         /\ UNCHANGED <<queue, lockHolder, quota, wpc, wtask, stopper,
                        started, quota_ev>>

\* A call made on the manager alone.
AddDownloadCall(c, u) ==
    /\ cpc[c] = "idle"
    /\ task_counter + Pending < MaxTasks
    /\ AcquireAndDecide(c, u)
    /\ UNCHANGED <<taskvars, textvars, linkvars>>

\* The call resumes with the lock.
AddDownloadGranted(c) ==
    /\ cpc[c] = "lockwait"
    /\ lockHolder = C(c)
    /\ Decide(c, cuser[c])

\* Lines 72-75: the denial message returns (or raises); "async with" releases
\* the lock and the call returns False (or propagates the exception).
AddDownloadDenied(c) ==
    /\ cpc[c] = "denying"
    /\ Release
    /\ cpc' = [cpc EXCEPT ![c] = "idle"]
    /\ cuser' = [cuser EXCEPT ![c] = 0]
    /\ UNCHANGED <<queue, quota, wpc, wtask, stopper, started, quota_ev, taskvars,
                 textvars, linkvars>>

\* -------------------------------------------------------------- the queue
\* A LIFO queue: the newest entry is taken first.
FrontIndexNewest(q) == Len(q)
\* Line 48 and line 87: asyncio.Queue is FIFO, get() takes the oldest entry.
FrontIndex(q) == 1

QueueFront(q) == q[FrontIndex(q)]
QueueRest(q) ==
    SubSeq(q, 1, FrontIndex(q) - 1) \o SubSeq(q, FrontIndex(q) + 1, Len(q))

\* ------------------------------------------------------ _mark_task_started
\* Forgets to take the task out of the queued count.
QueuedAfterStartKept(q, u) == q
\* Lines 111-115: queued - 1, the entry dropped when it is not positive.
QueuedAfterStart(q, u) ==
    IF GetQueued(q, u) - 1 > 0
    THEN DictSet(q, u, GetQueued(q, u) - 1)
    ELSE DictPop(q, u)

\* The task id is not recorded as active.
ActiveAfterStartKept(a, u, t) == a
\* Lines 117-118: active_tasks.setdefault(user_id, set()).add(task_id)
ActiveAfterStart(a, u, t) == DictSet(a, u, GetActive(a, u) \cup {t})

\* Line 119
ProcessingAfterStart(p) == p + 1

\* Lines 109-119, run while holding the lock; the worker then enters
\* _handle_download (line 96).
MarkTaskStarted(w, item) ==
    /\ queued_tasks' = QueuedAfterStart(queued_tasks, item.user)
    /\ active_tasks' = ActiveAfterStart(active_tasks, item.user, item.id)
    /\ processing' = ProcessingAfterStart(processing)
    /\ started' = Append(started, item.id)
    /\ wpc' = [wpc EXCEPT ![w] = "run"]
    /\ UNCHANGED <<task_counter, quota_ev>>

\* ----------------------------------------------------- _mark_task_finished
\* Leaves the finished task in the active set.
ActiveAfterFinishKept(a, u, t) == a
\* Removes the task id but keeps the requester's emptied set.
ActiveAfterFinishTombstone(a, u, t) ==
    IF u \in DOMAIN a THEN DictSet(a, u, a[u] \ {t}) ELSE a
\* Lines 123-127: the task id is removed, and the requester's entry with it
\* when the set becomes empty.
ActiveAfterFinish(a, u, t) ==
    IF GetActive(a, u) # {} /\ t \in GetActive(a, u)
    THEN IF a[u] \ {t} = {} THEN DictPop(a, u) ELSE DictSet(a, u, a[u] \ {t})
    ELSE a

\* Never counts a finished task down.
ProcessingAfterFinishKept(p) == p
\* Lines 129-130
ProcessingAfterFinish(p) == IF p > 0 THEN p - 1 ELSE p

\* Lines 121-130, run while holding the lock, then queue.task_done() and the
\* return to the top of the worker loop.
MarkTaskFinished(w) ==
    /\ active_tasks' = ActiveAfterFinish(active_tasks, wtask[w].user, wtask[w].id)
    /\ processing' = ProcessingAfterFinish(processing)
    /\ wpc' = [wpc EXCEPT ![w] = "get"]
    /\ wtask' = [wtask EXCEPT ![w] = NoItem]
    /\ quota_ev' = IF quota_ev = <<"denied", wtask[w].user>>
                    THEN <<"freed", wtask[w].user>> ELSE quota_ev
    /\ UNCHANGED <<task_counter, queued_tasks, started>>

\* ------------------------------------------------------------ _worker_loop
\* Lines 87-94: a worker blocked in queue.get() takes the front entry.  A
\* sentinel ends the worker; a task entry goes on to _mark_task_started,
\* which runs at once when the lock is free and otherwise waits in line.
WorkerGet(w) ==
    /\ wpc[w] = "get"
    /\ queue # <<>>
    /\ queue' = QueueRest(queue)
    /\ IF QueueFront(queue) = Sentinel
       THEN /\ wpc' = [wpc EXCEPT ![w] = "exited"]
            /\ UNCHANGED <<lock, quota, wtask, started, quota_ev>>
       ELSE /\ wtask' = [wtask EXCEPT ![w] = QueueFront(queue)]
            /\ IF LockFree
               THEN /\ MarkTaskStarted(w, QueueFront(queue))
                    /\ UNCHANGED lock
               ELSE /\ lockWaiters' = Append(lockWaiters, W(w))
                    /\ wpc' = [wpc EXCEPT ![w] = "start_wait"]
                    /\ UNCHANGED <<lockHolder, quota, started, quota_ev>>
    /\ UNCHANGED <<callers, stopper, taskvars,
                 textvars, linkvars>>

\* The worker resumes in _mark_task_started with the lock.
WorkerStartGranted(w) ==
    /\ wpc[w] = "start_wait"
    /\ lockHolder = W(w)
    /\ MarkTaskStarted(w, wtask[w])
    /\ Release
    /\ UNCHANGED <<queue, wtask, callers, stopper, taskvars,
                 textvars, linkvars>>

\* Lines 105-107: the finally clause of the worker loop runs
\* _mark_task_finished, at once when the lock is free, otherwise in line.
Finally(w) ==
    IF LockFree
    THEN /\ MarkTaskFinished(w)
         /\ UNCHANGED lock
    ELSE /\ lockWaiters' = Append(lockWaiters, W(w))
         /\ wpc' = [wpc EXCEPT ![w] = "finish_wait"]
         /\ UNCHANGED <<lockHolder, quota, wtask, started, quota_ev>>

\* The worker coroutine ends with the exception, the task still held.
AfterExceptionDies(w) ==
    /\ wpc' = [wpc EXCEPT ![w] = "exited"]
    /\ UNCHANGED <<lock, quota, wtask, started, quota_ev>>
\* Lines 103-107: "except Exception" logs the exception and falls through
\* to the finally clause.
AfterException(w) == Finally(w)

\* Lines 95-104: the call of _handle_download comes back to the worker loop:
\* it returns and the finally clause runs, or it raises an Exception (out of
\* its own except clause, line 170) and line 103 catches it.
RunTask(w) ==
    /\ wpc[w] = "run"
    /\ \/ Finally(w)
       \/ /\ wpc' = [wpc EXCEPT ![w] = "except"]
          /\ UNCHANGED <<lock, quota, wtask, started, quota_ev>>
    /\ UNCHANGED <<queue, callers, stopper, taskvars,
                 textvars, linkvars>>

\* Lines 103-107: the worker handles the exception of its task.
WorkerExcept(w) ==
    /\ wpc[w] = "except"
    /\ AfterException(w)
    /\ UNCHANGED <<queue, callers, stopper, taskvars,
                 textvars, linkvars>>

\* The worker resumes in _mark_task_finished with the lock.
WorkerFinishGranted(w) ==
    /\ wpc[w] = "finish_wait"
    /\ lockHolder = W(w)
    /\ MarkTaskFinished(w)
    /\ Release
    /\ UNCHANGED <<queue, callers, stopper, taskvars,
                 textvars, linkvars>>

\* --------------------------------------------------------------------- stop
\* Awaits all workers but the last.
JoinCountShort == NumWorkers - 1
\* Lines 573-577: every worker in self._workers is awaited.
JoinCount == NumWorkers

\* One sentinel too few.
SentinelsShort == [i \in 1..(NumWorkers - 1) |-> Sentinel]
\* Lines 570-571: one sentinel per worker, put without suspending.
Sentinels == [i \in 1..NumWorkers |-> Sentinel]

\* The sentinels go ahead of the entries already in the queue.
WithSentinelsAhead(q) == Sentinels \o q
\* Line 571: queue.put(None) appends behind the entries already queued.
WithSentinels(q) == q \o Sentinels

\* The ids of the tasks in a queue.
TaskIdsIn(q) == {q[i].id : i \in {j \in 1..Len(q) : q[j] # Sentinel}}

StopCall ==
    /\ spc = "idle"
    /\ queue' = WithSentinels(queue)
    /\ stop_mark' = task_counter
    /\ spc' = IF JoinCount = 0 THEN "done" ELSE "joining"
    /\ UNCHANGED <<lock, quota, wpc, wtask, callers, joined, started, quota_ev, taskvars,
                 textvars, linkvars>>

\* Line 575: "await worker" returns once that worker has exited; stop()
\* returns after the last one.
StopJoin ==
    /\ spc = "joining"
    /\ wpc[joined + 1] = "exited"
    /\ joined' = joined + 1
    /\ spc' = IF joined + 1 = JoinCount THEN "done" ELSE "joining"
    /\ UNCHANGED stop_mark
    /\ UNCHANGED <<queue, lock, quota, wpc, wtask, callers, started, quota_ev, taskvars,
                 textvars, linkvars>>

\* -------------------------------------------------------------------- texts
\* Texts are strings of characters.  A Cyrillic letter of the source is
\* written as "#" followed by a Latin letter or a digit (upper case for an
\* upper-case letter), so that the texts stay ASCII and no Latin phrase can
\* match inside a Cyrillic word.

\* Python's "p in s" for strings.
Contains(s, p) ==
    /\ Len(p) <= Len(s)
    /\ \E i \in 1..(Len(s) + 1 - Len(p)) : SubSeq(s, i, i + Len(p) - 1) = p

\* str.lower() on one character.
LowerChar(c) ==
    CASE c = "A" -> "a" [] c = "B" -> "b" [] c = "C" -> "c" [] c = "D" -> "d"
      [] c = "E" -> "e" [] c = "F" -> "f" [] c = "G" -> "g" [] c = "H" -> "h"
      [] c = "I" -> "i" [] c = "J" -> "j" [] c = "K" -> "k" [] c = "L" -> "l"
      [] c = "M" -> "m" [] c = "N" -> "n" [] c = "O" -> "o" [] c = "P" -> "p"
      [] c = "Q" -> "q" [] c = "R" -> "r" [] c = "S" -> "s" [] c = "T" -> "t"
      [] c = "U" -> "u" [] c = "V" -> "v" [] c = "W" -> "w" [] c = "X" -> "x"
      [] c = "Y" -> "y" [] c = "Z" -> "z"
      [] OTHER -> c

\* str.lower(): every character lowered, computed by halves.
RECURSIVE Lower(_)
Lower(s) ==
    IF Len(s) = 0 THEN ""
    ELSE IF Len(s) = 1 THEN LowerChar(s)
    ELSE LET half == Len(s) \div 2 IN
         Lower(SubSeq(s, 1, half)) \o Lower(SubSeq(s, half + 1, Len(s)))

\* ErrorManager.to_user_message (errors.py lines 31-80): the category of the
\* message returned for str(error) = text, by the first test that matches
\* the lower-cased text.
ToUserMessage(text) ==
    LET msg == Lower(text) IN
    CASE Contains(msg, "drm protected") -> "drm"
      [] Contains(msg, "unsupported") -> "unsupported"
      [] \/ Contains(msg, "too large")
         \/ Contains(msg, "#r#a#z#m#e#r")
         \/ Contains(msg, "max_filesize") -> "too_large"
      [] Contains(msg, "timeout") \/ Contains(msg, "timed out") -> "timeout"
      [] Contains(msg, "disk") \/ Contains(msg, "space") -> "disk"
      [] Contains(msg, "unable to extract webpage video data") -> "tiktok_data"
      [] Contains(msg, "video not available") \/ Contains(msg, "private")
            -> "unavailable"
      [] OTHER -> "generic"

\* One character of a text.
CharAt(s, i) == SubSeq(s, i, i)

\* The regular expression class \d, for the ASCII digits.
IsDigit(c) == c \in {"0", "1", "2", "3", "4", "5", "6", "7", "8", "9"}

\* The positions where "/video/" is followed by a digit.
VideoIdStarts(s) ==
    {i \in 1..Len(s) : /\ i + 7 <= Len(s)
                       /\ SubSeq(s, i, i + 6) = "/video/"
                       /\ IsDigit(CharAt(s, i + 7))}

Min(S) == CHOOSE x \in S : \A y \in S : x <= y

\* The greedy \d+ starting at position i.
RECURSIVE DigitsFrom(_, _)
DigitsFrom(s, i) ==
    IF i > Len(s) \/ ~IsDigit(CharAt(s, i)) THEN ""
    ELSE CharAt(s, i) \o DigitsFrom(s, i + 1)

\* The video id of the leftmost match of /video/(\d+), as re.search finds it.
VideoId(url) == DigitsFrom(url, Min(VideoIdStarts(url)) + 7)

\* None as the result of _canonicalize_tiktok_video_url.
NoUrl == "none"

\* A canonical form without the "/video/" segment.
CanonicalizeWithoutSegment(url) ==
    IF VideoIdStarts(url) = {} THEN NoUrl
    ELSE "https://www.tiktok.com/@_/" \o VideoId(url)
\* _canonicalize_tiktok_video_url (lines 310-316)
CanonicalizeTiktokVideoUrl(url) ==
    IF VideoIdStarts(url) = {} THEN NoUrl
    ELSE "https://www.tiktok.com/@_/video/" \o VideoId(url)

\* MAX_FILE_SIZE_MB (config.py line 22) as formatted into the message.
MaxFileSizeText == "2048"

\* The messages of the exceptions _handle_download raises itself.
\* Line 148: RuntimeError
NoDiskText == "#N#e#d#o#s#t#a#t#o#4#n#o #m#e#s#t#a #n#a #d#i#s#k#e."
\* Line 155: FileNotFoundError
NotFoundText == "#F#a#y#l #n#e #n#a#y#d#e#n #p#o#s#l#e #z#a#g#r#u#z#k#i."
\* Line 159: ValueError
TooLargeText ==
    "#F#a#y#l #b#o#l#8#w#e #l#i#m#i#t#a Telegram (" \o MaxFileSizeText \o " #M#B)."

\* The four phrases of lines 348-353.
TransientPhrases ==
    { "unable to extract webpage video data", "unable to download webpage",
      "video not available", "extractorerror" }

\* A classifier that does not look for the platform's name.
IsTiktokExtractionErrorAnyPlatform(text) ==
    \E token \in TransientPhrases : Contains(Lower(text), token)
\* _is_tiktok_extraction_error (lines 341-355) for str(error) = text.
IsTiktokExtractionError(text) ==
    LET msg == Lower(text) IN
    IF ~Contains(msg, "tiktok") THEN FALSE
    ELSE \E token \in TransientPhrases : Contains(msg, token)

\* Messages of exceptions raised by the external calls of a task other than
\* yt-dlp (the file system, Telegram, the HTTP transfer).
ExternalTexts ==
    { "Telegram server says - Bad Request: message is too long",
      "Connection timed out" }

\* Messages of exceptions raised by yt-dlp's extract_info.
YtdlpTexts ==
    { "ERROR: [TikTok] 7: Unable to extract webpage video data",
      "ERROR: [TikTok] 7: Video not available",
      "ERROR: [TikTok] 7: This video is DRM protected",
      "ERROR: Unable to download webpage: timed out" }

\* ------------------------------------------------- to_user_message, details
\* html.escape(c) for one character, quote=True.
EscapeChar(c) ==
    CASE c = "&" -> "&amp;"
      [] c = "<" -> "&lt;"
      [] c = ">" -> "&gt;"
      [] c = "\"" -> "&quot;"
      [] c = "'" -> "&#x27;"
      [] OTHER -> c

\* html.escape(s): every character escaped, computed by halves.
RECURSIVE HtmlEscape(_)
HtmlEscape(s) ==
    IF Len(s) = 0 THEN ""
    ELSE IF Len(s) = 1 THEN EscapeChar(s)
    ELSE LET half == Len(s) \div 2 IN
         HtmlEscape(SubSeq(s, 1, half))
            \o HtmlEscape(SubSeq(s, half + 1, Len(s)))

\* errors.py line 75: the slice [:350].
DetailLimit == 350

\* s[:n]
Take(s, n) == IF Len(s) <= n THEN s ELSE SubSeq(s, 1, n)

\* The diagnostic without the cut.
GenericDetailsUncut(text) == HtmlEscape(text)

\* errors.py line 75: safe_details = html.escape(str(error))[:350]
GenericDetails(text) == Take(HtmlEscape(text), DetailLimit)

\* to_user_message as the pair of the category of the message returned and
\* the diagnostic it carries, which only the generic message has.
UserMessage(text) ==
    LET category == ToUserMessage(text) IN
    <<category, IF category = "generic" THEN GenericDetails(text) ELSE "">>

\* ------------------------------------------- is_supported_url, detect_platform
\* config.py lines 66-85: SUPPORTED_DOMAINS.
SupportedDomains ==
    { "youtube.com", "youtu.be", "tiktok.com", "vm.tiktok.com",
      "vt.tiktok.com", "m.tiktok.com", "instagram.com", "facebook.com",
      "twitter.com", "x.com", "vk.com", "m.vkvideo.ru", "reddit.com",
      "pinterest.com", "pin.it", "dailymotion.com", "vimeo.com",
      "soundcloud.com" }

\* config.py lines 55-56: VIDEO_EXTENSIONS and AUDIO_EXTENSIONS.
VideoExtensions == {".mp4", ".mkv", ".webm", ".avi", ".mov", ".wmv", ".flv"}
AudioExtensions == {".mp3", ".m4a", ".wav", ".aac", ".ogg"}

\* config.py line 50: the extensions DIRECT_FILE_RE accepts, with the dot.
DirectExtensions ==
    { ".mp4", ".mkv", ".webm", ".avi", ".mov", ".wmv", ".flv", ".mp3", ".m4a",
      ".wav", ".aac", ".ogg" }

\* The regular expression class \s.
IsSpace(c) == c \in {" ", "\t", "\n", "\r", "\f"}

NoSpace(s) == \A i \in 1..Len(s) : ~IsSpace(CharAt(s, i))

\* config.py line 51: (?:\?[^#\s]*)?(?:#[^\s]*)?$ matches the rest of the
\* text: nothing, or a query and/or a fragment without white space; "$" also
\* matches before a final line feed.
DirectTailToEnd(t) == t = "" \/ (CharAt(t, 1) \in {"?", "#"} /\ NoSpace(t))
DirectTail(t) ==
    \/ DirectTailToEnd(t)
    \/ /\ Len(t) > 0
       /\ CharAt(t, Len(t)) = "\n"
       /\ DirectTailToEnd(SubSeq(t, 1, Len(t) - 1))

\* DIRECT_FILE_RE.search(url), config.py lines 49-53: somewhere in the text
\* at least one character that is not white space, a dot and one of the
\* extensions in any case, and then the tail above.
DirectFileRe(url) ==
    \E i \in 2..Len(url) : \E e \in DirectExtensions :
        /\ i + Len(e) - 1 <= Len(url)
        /\ ~IsSpace(CharAt(url, i - 1))
        /\ Lower(SubSeq(url, i, i + Len(e) - 1)) = e
        /\ DirectTail(SubSeq(url, i + Len(e), Len(url)))

\* utils.py lines 55-62.
IsSupportedUrl(url) ==
    IF url = "" THEN FALSE
    ELSE \/ \E d \in SupportedDomains : Contains(Lower(url), d)
         \/ DirectFileRe(url)

\* utils.py lines 71-92: the tests of detect_platform in their order, each a
\* platform and the domains looked for in the lower-cased URL.
PlatformTests ==
    << <<"youtube", {"youtube.com", "youtu.be"}>>,
       <<"tiktok", {"tiktok.com"}>>,
       <<"instagram", {"instagram.com"}>>,
       <<"facebook", {"facebook.com"}>>,
       <<"twitter", {"twitter.com", "x.com"}>>,
       <<"vk", {"vk.com", "m.vkvideo.ru"}>>,
       <<"reddit", {"reddit.com"}>>,
       <<"pinterest", {"pinterest.com", "pin.it"}>>,
       <<"dailymotion", {"dailymotion.com"}>>,
       <<"vimeo", {"vimeo.com"}>>,
       <<"soundcloud", {"soundcloud.com"}>> >>

\* The platform of the first test that finds one of its domains in low.
RECURSIVE PlatformByDomain(_, _)
PlatformByDomain(tests, low) ==
    IF tests = <<>> THEN "none"
    ELSE IF \E d \in Head(tests)[2] : Contains(low, d)
         THEN Head(tests)[1]
         ELSE PlatformByDomain(Tail(tests), low)

\* utils.py lines 65-95 for a list of domain tests.
DetectPlatformWith(tests, url) ==
    IF url = "" THEN "unknown"
    ELSE LET byDomain == PlatformByDomain(tests, Lower(url)) IN
         IF byDomain # "none" THEN byDomain
         ELSE IF DirectFileRe(url) THEN "direct" ELSE "unknown"

\* A detect_platform that does not know the domain m.vkvideo.ru.
DetectPlatformWithoutVkvideo(url) ==
    DetectPlatformWith([PlatformTests EXCEPT ![6] = <<"vk", {"vk.com"}>>], url)

\* detect_platform, utils.py lines 65-95.
DetectPlatform(url) == DetectPlatformWith(PlatformTests, url)

\* ---------------------------------------------------------- _find_latest_file
\* A directory is the sequence of its entries in the order iterdir() yields
\* them; an entry is a file or not, and has a suffix and a modification time.
\* The result is the position of the entry returned, NoFile for None.
NoFile == 0

\* Line 490: the entries for which is_file() is true.
FilesOf(dir) ==
    {i \in 1..Len(dir.entries) : dir.entries[i].kind = "file"}

\* Lines 491-496: the files whose lower-cased suffix is in allowed_ext (all
\* files when allowed_ext is empty).
MatchingOf(dir) ==
    {i \in FilesOf(dir) :
        dir.allowed = {} \/ Lower(dir.entries[i].ext) \in dir.allowed}

\* Without the second pass over the directory.
CandidatesWithoutFallback(dir) == MatchingOf(dir)

\* Lines 498-499: the matching files, or every file when none matches.
Candidates(dir) ==
    IF MatchingOf(dir) # {} THEN MatchingOf(dir) ELSE FilesOf(dir)

\* max(files, key=mtime): the first of the entries with the greatest time.
FirstLatest(dir, S) ==
    CHOOSE i \in S :
        \A j \in S : \/ dir.entries[j].mtime < dir.entries[i].mtime
                     \/ dir.entries[j].mtime = dir.entries[i].mtime /\ i <= j

\* _find_latest_file, lines 488-502.
FindLatestFile(dir) ==
    IF Candidates(dir) = {} THEN NoFile
    ELSE FirstLatest(dir, Candidates(dir))

\* Lines 189-190: allowed_ext for the mode of the task.
AllowedExt(mode) ==
    IF mode = "audio" THEN AudioExtensions ELSE VideoExtensions

\* -------------------------------------------------------- _handle_download
Modes == {"video", "audio"}
Platforms == {"direct", "tiktok", "other"}
Terminal == {"completed", "failed"}

\* Skips DOWNLOADING.
StatusOnStartSkipped == "sending"
\* Line 151
StatusOnStart == "downloading"

\* Marks the task completed before the file is sent.
StatusBeforeSendEarly == "completed"
\* Line 161
StatusBeforeSend == "sending"

\* Line 164
StatusAfterSend == "completed"

\* An except clause that leaves the status as it was.
StatusOnErrorKept(s) == s
\* Line 167: whatever the status was when the exception was raised.
StatusOnError(s) == "failed"

\* cleanup_temp_dir (utils.py lines 128-134), called when temp_dir is set:
\* the possible states of the directory afterwards.  shutil.rmtree removes
\* it, or raises (a file that cannot be deleted) and the exception is
\* swallowed at lines 133-134 with the directory still there.
TempDirAfterCleanup(d) == IF d = "exists" THEN {"removed", "exists"} ELSE {d}

\* The new values of the locals of the call.
Locals(pc, st, msg, dir, plan, i, last, file, err) ==
    /\ h_pc' = pc
    /\ h_status' = st
    /\ h_status_msg' = msg
    /\ h_temp_dir' = dir
    /\ h_plan' = plan
    /\ h_i' = i
    /\ h_last' = last
    /\ h_file' = file
    /\ h_err' = err
    /\ UNCHANGED <<h_mode, h_platform, poolvars, textvars, linkvars>>

\* One step of the call inside the try block that raises nothing and
\* invokes no retrieval operation.
TaskStep(pc, st, msg, dir, plan, i, last, file, err) ==
    /\ Locals(pc, st, msg, dir, plan, i, last, file, err)
    /\ UNCHANGED <<h_text, h_reported, h_ops>>

\* A retrieval operation and its outcome: what it left ("ok", "big", "none")
\* or the message of the exception it raised.  The plan index is 0 outside
\* the TikTok loop.
Op(kind, i, out) == <<kind, i, out>>
OpKind(op) == op[1]
OpIndex(op) == op[2]
OpOutcome(op) == op[3]

\* One step that invoked the retrieval operation op and raised nothing.
TaskStepOp(op, pc, st, msg, dir, plan, i, last, file, err) ==
    /\ Locals(pc, st, msg, dir, plan, i, last, file, err)
    /\ h_ops' = Append(h_ops, op)
    /\ UNCHANGED <<h_text, h_reported>>

\* Lines 166-169: an exception with message text, raised inside the try
\* block, is caught, the task is marked FAILED and _handle_download_error is
\* awaited.
Raise(err, text, dir, last) ==
    /\ Locals("report", StatusOnError(h_status), h_status_msg, dir, h_plan,
              h_i, last, h_file, err)
    /\ h_text' = text
    /\ UNCHANGED <<h_reported, h_ops>>

\* The same for an exception that comes out of the retrieval operation op.
RaiseOp(op, err, text, dir, last) ==
    /\ Locals("report", StatusOnError(h_status), h_status_msg, dir, h_plan,
              h_i, last, h_file, err)
    /\ h_text' = text
    /\ h_ops' = Append(h_ops, op)
    /\ UNCHANGED h_reported

\* The retrieval operation kind came back with a path (or None): lines
\* 154-159 follow.
Retrieved(kind, file) ==
    TaskStepOp(Op(kind, IF kind = "attempt" THEN h_i ELSE 0, file), "check",
               h_status, h_status_msg, h_temp_dir, h_plan, h_i, h_last, file,
               h_err)

\* Lines 146-148: create_temp_dir and the disk-space check.
TaskCreateTempDir ==
    /\ h_pc = "begin"
    /\ \/ \* create_temp_dir raises; temp_dir is still None
          \E t \in ExternalTexts : Raise("mkdir", t, "none", h_last)
       \/ \* has_enough_disk_space is false: RuntimeError
          Raise("nodisk", NoDiskText, "exists", h_last)
       \/ TaskStep("answer", h_status, h_status_msg, "exists", h_plan, h_i,
                   h_last, h_file, h_err)

\* Lines 150-151: the first status message, then task.status = DOWNLOADING.
TaskAnswer ==
    /\ h_pc = "answer"
    /\ \/ \* callback_query.message.answer raises
          \E t \in ExternalTexts : Raise("answer", t, h_temp_dir, h_last)
       \/ TaskStep("dispatch", StatusOnStart, TRUE, h_temp_dir, h_plan, h_i,
                   h_last, h_file, h_err)

\* ------------------------------------------------------- _download_content

\* Lines 330-337: candidates in order; a missing (None or empty) URL and a
\* pair already seen are skipped.
RECURSIVE PlanFrom(_, _, _)
PlanFrom(cands, seen, attempts) ==
    IF cands = <<>> THEN attempts
    ELSE IF Head(cands)[1] \in {NoUrl, ""} \/ Head(cands) \in seen
         THEN PlanFrom(Tail(cands), seen, attempts)
         ELSE PlanFrom(Tail(cands), seen \cup {Head(cands)},
                       Append(attempts, Head(cands)))

\* The four candidates without the filter of lines 331-335.
BuildTiktokAttemptPlanUnfiltered(url, canonical) ==
    << <<url, FALSE>>, <<canonical, FALSE>>, <<url, TRUE>>, <<canonical, TRUE>> >>
\* _build_tiktok_attempt_plan (lines 318-339) for a URL and its canonical
\* form, NoUrl when _canonicalize_tiktok_video_url finds no video id.  An
\* entry is <<URL, use_tiktok_app_api>>.
BuildTiktokAttemptPlan(url, canonical) ==
    PlanFrom(<< <<url, FALSE>>, <<canonical, FALSE>>,
                <<url, TRUE>>, <<canonical, TRUE>> >>, {}, <<>>)

\* Lines 326-328: the plan of a URL.
TiktokAttemptPlan(url) ==
    BuildTiktokAttemptPlan(url, CanonicalizeTiktokVideoUrl(url))

\* The URLs a TikTok task downloads from (after normalisation): one with a
\* video id, one already canonical, one without a video id.
TiktokUrls ==
    { "https://www.tiktok.com/@user/video/12345",
      "https://www.tiktok.com/@_/video/12345",
      "https://vm.tiktok.com/ZMabc/" }

\* Every platform but DIRECT is given an attempt plan.
RetrievalWithPlanFor(platform) ==
    IF platform = "direct" THEN "transfer" ELSE "attempt"

\* Lines 192, 215 and 226: which retrieval a platform gets: the byte
\* transfer for DIRECT, the attempt plan for TIKTOK, and one call of
\* _download_with_ytdlp (use_tiktok_app_api False, line 223) for the rest.
RetrievalFor(platform) ==
    CASE platform = "direct" -> "transfer"
      [] platform = "tiktok" -> "attempt"
      [] OTHER -> "ytdlp"

\* Lines 182-226: the progress edit (errors ignored), detect_platform, and
\* for TikTok the normalisation of the URL and the attempt plan.
TaskDispatch ==
    /\ h_pc = "dispatch"
    /\ \/ /\ RetrievalFor(h_platform) = "transfer"
          /\ TaskStep("transfer", h_status, h_status_msg, h_temp_dir, h_plan,
                      h_i, h_last, h_file, h_err)
       \/ /\ RetrievalFor(h_platform) = "ytdlp"
          /\ TaskStep("ytdlp", h_status, h_status_msg, h_temp_dir, h_plan,
                      h_i, h_last, h_file, h_err)
       \/ /\ RetrievalFor(h_platform) = "attempt"
          /\ \E u \in TiktokUrls :
                TaskStep("attempt", h_status, h_status_msg, h_temp_dir,
                         TiktokAttemptPlan(u), 1, h_last, h_file, h_err)

\* Lines 192-206: a direct file is streamed to disk, once.
TaskTransfer ==
    /\ h_pc = "transfer"
    /\ \/ \* download_file_async raises
          \E t \in ExternalTexts :
             RaiseOp(Op("transfer", 0, t), "transfer", t, h_temp_dir, h_last)
       \/ \E f \in {"ok", "big"} : Retrieved("transfer", f)

\* Lines 215-224: any other platform, one call of _download_with_ytdlp,
\* which returns what _find_latest_file finds (possibly nothing).
TaskYtdlp ==
    /\ h_pc = "ytdlp"
    /\ \/ \* extract_info raises
          \E t \in YtdlpTexts :
             RaiseOp(Op("ytdlp", 0, t), "extract", t, h_temp_dir, h_last)
       \/ \E f \in {"none", "ok", "big"} : Retrieved("ytdlp", f)

\* A fallback that is tried in audio mode too.
FallbackAppliesInAnyMode(mode) == mode \in Modes

\* Line 252: "if not is_audio", with is_audio of line 189.
FallbackApplies(mode) == mode # "audio"

\* Lines 250-258: the last plan entry failed with last and the plan is
\* exhausted.  In video mode the HTML fallback is tried; otherwise last_error
\* is raised.
AfterPlan(last) ==
    IF FallbackApplies(h_mode)
    THEN TaskStepOp(Op("attempt", h_i, last), "html", h_status, h_status_msg,
                    h_temp_dir, h_plan, h_i, last, h_file, h_err)
    ELSE RaiseOp(Op("attempt", h_i, last), "recoverable", last, h_temp_dir,
                 last)

\* No error of an attempt is raised again.
ReraisedNever(text) == FALSE
\* Every error of an attempt is raised again.
ReraisedAlways(text) == TRUE
\* Lines 241-242: "if not self._is_tiktok_extraction_error(error): raise"
Reraised(text) == ~IsTiktokExtractionError(text)

\* A loop that drops the plan entry after a failed one.
NextAttemptSkipping(i) == i + 2

\* Line 227: the for loop moves to the plan entry after entry i.
NextAttempt(i) == i + 1

\* Lines 228-248: one plan entry is tried.
TaskAttempt ==
    /\ h_pc = "attempt"
    /\ \/ \* _download_with_ytdlp returns: the loop returns its result
          \E f \in {"none", "ok", "big"} : Retrieved("attempt", f)
       \/ \* it raises: last_error is set, and the error is re-raised at line
          \* 242 unless _is_tiktok_extraction_error accepts it
          \E t \in YtdlpTexts :
             IF Reraised(t)
             THEN RaiseOp(Op("attempt", h_i, t), "fatal", t, h_temp_dir, t)
             ELSE IF h_i < Len(h_plan)
                  THEN TaskStepOp(Op("attempt", h_i, t), "attempt", h_status,
                                  h_status_msg, h_temp_dir, h_plan,
                                  NextAttempt(h_i), t, h_file, h_err)
                  ELSE AfterPlan(t)

\* Lines 271-299: what makes _download_tiktok_direct_from_html return None:
\* a status other than 200, no media URL in the page, no file after the
\* transfer, or an exception, which line 296 catches and logs.
HtmlFailures ==
    {"status is not 200", "no media URL", "no file"} \cup ExternalTexts

\* The failure inside the fallback is raised instead of last_error.
ErrorAfterFallbackInner(last, inner) == inner

\* Lines 257-258: "if last_error: raise last_error".
ErrorAfterFallback(last, inner) == last

\* Lines 253-259 with 261-299: the HTML fallback returns a file, or None
\* (bad status, no media URL, any exception), and then last_error is raised.
TaskHtml ==
    /\ h_pc = "html"
    /\ \/ \E f \in {"ok", "big"} : Retrieved("html", f)
       \/ IF h_last # "none"
          THEN \E inner \in HtmlFailures :
                  RaiseOp(Op("html", 0, "none"), "recoverable",
                          ErrorAfterFallback(h_last, inner), h_temp_dir,
                          h_last)
          ELSE Retrieved("html", "none")

\* Lines 154-161: no file, a file over MAX_FILE_SIZE_MB, or on to SENDING.
TaskCheck ==
    /\ h_pc = "check"
    /\ CASE h_file = "none" -> Raise("notfound", NotFoundText, h_temp_dir, h_last)
         [] h_file = "big" -> Raise("toolarge", TooLargeText, h_temp_dir, h_last)
         [] OTHER -> TaskStep("send", StatusBeforeSend, h_status_msg,
                              h_temp_dir, h_plan, h_i, h_last, h_file, h_err)

\* Lines 162-165 and 171-173: _send_file, then COMPLETED and the cleanup of
\* the finally clause.
TaskSend ==
    /\ h_pc = "send"
    /\ \/ \* _send_file raises
          \E t \in ExternalTexts : Raise("send", t, h_temp_dir, h_last)
       \/ \E d \in TempDirAfterCleanup(h_temp_dir) :
             TaskStep("returned", StatusAfterSend, h_status_msg, d, h_plan,
                      h_i, h_last, h_file, h_err)

\* Lines 170-173 with 530-555: _handle_download_error sends the message
\* to_user_message builds and returns, or its message.answer raises out of
\* the except clause; the finally clause cleans up either way.
TaskReport ==
    /\ h_pc = "report"
    /\ \E d \in TempDirAfterCleanup(h_temp_dir) :
          \/ /\ Locals("returned", h_status, h_status_msg, d, h_plan, h_i,
                       h_last, h_file, h_err)
             /\ h_reported' = ToUserMessage(h_text)
             /\ UNCHANGED <<h_text, h_ops>>
          \/ /\ Locals("raised", h_status, h_status_msg, d, h_plan, h_i,
                       h_last, h_file, h_err)
             /\ UNCHANGED <<h_text, h_reported, h_ops>>

\* ------------------------------------------------- handlers.py: the front end
\* self.pending_link_ttl_seconds and self._pending_cleanup_interval_seconds.
PendingLinkTtl == 3600
CleanupInterval == 60

\* datetime.now().timestamp() when the bot starts: seconds since the epoch,
\* far above the interval, so that the first clean-up is always due.
StartTime == 1700000000
\* The clock advances by a short or a long step, at most MaxTicks times.
ShortStep == CleanupInterval \div 2
TickSteps == {ShortStep, PendingLinkTtl}
MaxTicks == 2
Ticks(now) ==
    ((now - StartTime) \div PendingLinkTtl)
    + (((now - StartTime) % PendingLinkTtl) \div ShortStep)

\* Tokens uuid4().hex[:12] yields, and one that was never issued.
Tokens == {"tokA", "tokB"}
UnknownToken == "tokZ"
\* Links users send: one to a supported service and one to another.
LinkUrls == {"https://youtu.be/abc", "https://example.org/x"}
\* Lines 93-95: the links that pass is_supported_url.
SupportedLinkUrls == {url \in LinkUrls : IsSupportedUrl(url)}
\* callback.data the dispatcher lets through (lines 42-45: it starts with
\* "download:").
CallbackModes == {"video", "audio", "gif"}
CallbackData ==
    {"download:" \o m \o ":" \o t :
        m \in CallbackModes, t \in Tokens \cup {UnknownToken}}
    \cup {"download:", "download:video"}

\* str.split(":", 2): at most two cuts, at the first two colons.
ColonsFrom(s, from) == {i \in from..Len(s) : CharAt(s, i) = ":"}
SplitTwice(s) ==
    IF ColonsFrom(s, 1) = {} THEN <<s>>
    ELSE LET i == Min(ColonsFrom(s, 1)) IN
         IF ColonsFrom(s, i + 1) = {}
         THEN <<SubSeq(s, 1, i - 1), SubSeq(s, i + 1, Len(s))>>
         ELSE LET j == Min(ColonsFrom(s, i + 1)) IN
              <<SubSeq(s, 1, i - 1), SubSeq(s, i + 1, j - 1),
                SubSeq(s, j + 1, Len(s))>>
\* Line 115: the parts of each callback data.
CallbackParts == [d \in CallbackData |-> SplitTwice(d)]

\* Lines 154-158: the payload stored under a token.
Payload(user, url, now) == [user_id |-> user, url |-> url, created_at |-> now]

\* Line 33: self.pending_links = {}
NoLinks == [t \in {} |-> Payload(0, NoUrl, 0)]

\* Lines 172-173: the clean-up is skipped within the interval of the last one.
CleanupDue(now, last) == ~(now - last < CleanupInterval)
\* Line 179: a link is expired once it is older than the time-to-live.
Expired(payload, now) == now - payload.created_at > PendingLinkTtl
\* Lines 176-182: the expired tokens are popped.
WithoutExpired(links, now) ==
    [t \in {k \in DOMAIN links : ~Expired(links[k], now)} |-> links[t]]
\* _cleanup_pending_links as a function of the store and of the two times.
CleanedLinks(links, now, last) ==
    IF CleanupDue(now, last) THEN WithoutExpired(links, now) ELSE links
CleanupStamp(now, last) == IF CleanupDue(now, last) THEN now ELSE last

\* The token is resolved for anyone who presents it.
ResolvedUrlForAnyone(links, token, user) ==
    IF token \notin DOMAIN links THEN NoUrl ELSE links[token].url

\* Lines 163-168 after the clean-up: the URL, or None.
ResolvedUrl(links, token, user) ==
    IF token \notin DOMAIN links THEN NoUrl
    ELSE IF links[token].user_id # user THEN NoUrl
    ELSE links[token].url

\* Lines 156-158: self.pending_links[token] = payload.
WithLink(links, token, payload) ==
    [t \in DOMAIN links \cup {token} |->
        IF t = token THEN payload ELSE links[t]]

\* Time passes.
Tick ==
    /\ Ticks(clock) < MaxTicks
    /\ \E d \in TickSteps : clock' = clock + d
    /\ UNCHANGED <<pending_links, last_cleanup, cb_pc, cb_user, cb_token,
                   cb_case, cb_url, cb_calls, cb_answers>>
    /\ UNCHANGED <<poolvars, taskvars, textvars>>

\* handle_url_message, lines 78-112, for a message with a link.  A link to
\* an unsupported service is answered and nothing is stored (lines 93-95).
UrlMessageUnsupported(url) ==
    /\ url \notin SupportedLinkUrls
    /\ UNCHANGED vars

\* ... and a supported one is stored under a new token (lines 98 and
\* 151-159, after the clean-up of line 152).
UrlMessage(u, url, token) ==
    /\ url \in SupportedLinkUrls
    /\ LET links == CleanedLinks(pending_links, clock, last_cleanup) IN
       /\ token \notin DOMAIN links
       /\ pending_links' = WithLink(links, token, Payload(u, url, clock))
    /\ last_cleanup' = CleanupStamp(clock, last_cleanup)
    /\ UNCHANGED <<clock, cb_pc, cb_user, cb_token, cb_case, cb_url, cb_calls,
                   cb_answers>>
    /\ UNCHANGED <<poolvars, taskvars, textvars>>

\* What a call of handle_download_callback has done when it first suspends.
CallbackAt(pc, u, token, case, url, calls, answers) ==
    /\ cb_pc' = pc
    /\ cb_user' = u
    /\ cb_token' = token
    /\ cb_case' = case
    /\ cb_url' = url
    /\ cb_calls' = calls
    /\ cb_answers' = answers

\* The press is turned down only above the cap.
AtCapOffByOne(n) == n > MaxConcurrent
\* Line 129: active_count >= self.download_manager.max_concurrent
AtCap(n) == n >= MaxConcurrent

\* Lines 163-167: why a token does not resolve.
Unresolved(links, token) ==
    IF token \in DOMAIN links THEN "foreign" ELSE "notfound"

\* Lines 114-136 with add_download lines 61-82, up to the first await that
\* suspends.  Malformed data is answered at once (lines 116-119).  Otherwise
\* the token is resolved, after the clean-up (line 123); an unresolved token
\* is answered (lines 124-126); a requester at the cap, read at line 128
\* without the lock, is answered (lines 129-134); otherwise add_download is
\* called once (line 136).  It answers an invalid mode itself, and decides
\* a valid one under the lock; an admission returns without suspending and
\* the handler goes on to its own answer (line 142).  At most MaxConcurrent
\* tasks are admitted here, which is what it takes to bring a requester to
\* the cap; no worker runs in this part.  The awaited answers
\* touch nothing of the bot, so calls that overlap in them act as calls
\* taken one after the other, and one call is followed at a time.
CallbackStart(c, u, data) ==
    /\ cb_pc = "idle"
    /\ cpc[c] = "idle"
    /\ UNCHANGED <<clock, taskvars, textvars>>
    /\ LET parts == CallbackParts[data] IN
       IF Len(parts) # 3
       THEN /\ CallbackAt("answering", u, "", "malformed", NoUrl, 0, 1)
            /\ UNCHANGED <<pending_links, last_cleanup, poolvars>>
       ELSE
       LET mode == parts[2]
           token == parts[3]
           links == CleanedLinks(pending_links, clock, last_cleanup)
           url == ResolvedUrl(links, token, u)
       IN
       /\ pending_links' = links
       /\ last_cleanup' = CleanupStamp(clock, last_cleanup)
       /\ IF url = NoUrl
          THEN /\ CallbackAt("answering", u, token, Unresolved(links, token), NoUrl,
                            0, 1)
               /\ UNCHANGED poolvars
          ELSE IF AtCap(UserCount(active_tasks, queued_tasks, u))
          THEN /\ CallbackAt("answering", u, token, "atcap", url, 0, 1)
               /\ UNCHANGED poolvars
          ELSE IF mode \notin Modes
          THEN /\ CallbackAt("adding", u, token, "badmode", url, 1, 1)
               /\ UNCHANGED poolvars
          ELSE /\ task_counter < MaxConcurrent
               /\ AcquireAndDecide(c, u)
               /\ IF LockFree /\ AdmitAllowed(active_tasks, queued_tasks, u)
                  THEN CallbackAt("answering", u, token, "queued", url, 1, 1)
                  ELSE CallbackAt("adding", u, token, "waiting", url, 1, 0)

\* Lines 136-139 and 142: add_download has returned; the handler answers
\* the callback, whatever the result.
CallbackAdded ==
    /\ cb_pc = "adding"
    /\ \A c \in Callers : cpc[c] = "idle"
    /\ cb_pc' = "answering"
    /\ cb_answers' = cb_answers + 1
    /\ UNCHANGED <<clock, pending_links, last_cleanup, cb_user, cb_token,
                   cb_case, cb_url, cb_calls>>
    /\ UNCHANGED <<poolvars, taskvars, textvars>>

\* No call of the handler is in progress.
NoCallback ==
    /\ cb_pc = "idle"
    /\ cb_user = 0
    /\ cb_token = ""
    /\ cb_case = "none"
    /\ cb_url = NoUrl
    /\ cb_calls = 0
    /\ cb_answers = 0

\* The handler's last answer returns and with it the handler (the edit of
\* the message, lines 143-149, changes nothing here and its errors are
\* swallowed).
CallbackReturn ==
    /\ cb_pc = "answering"
    /\ CallbackAt("idle", 0, "", "none", NoUrl, 0, 0)
    /\ UNCHANGED <<clock, pending_links, last_cleanup>>
    /\ UNCHANGED <<poolvars, taskvars, textvars>>

\* Lines 30-37: the front end after the constructor.
InitFront ==
    /\ clock = StartTime
    /\ pending_links = NoLinks
    /\ last_cleanup = 0
    /\ NoCallback

\* ----------------------------------------------------------- specifications
\* Lines 46-59: the manager after the constructor.
InitPool ==
    /\ queue = <<>>
    /\ lockHolder = NoProc
    /\ lockWaiters = <<>>
    /\ processing = 0
    /\ task_counter = 0
    /\ active_tasks = EmptyDict
    /\ queued_tasks = EmptyDict
    /\ wpc = [w \in Workers |-> "get"]
    /\ wtask = [w \in Workers |-> NoItem]
    /\ cpc = [c \in Callers |-> "idle"]
    /\ cuser = [c \in Callers |-> 0]
    /\ spc = "idle"
    /\ joined = 0
    /\ stop_mark = 0
    /\ started = <<>>
    /\ quota_ev = NoEvent

\* Lines 140-143: the locals of _handle_download at the top of its try block.
InitLocals ==
    /\ h_pc = "begin"
    /\ h_status = "queued"
    /\ h_status_msg = FALSE
    /\ h_temp_dir = "none"
    /\ h_plan = <<>>
    /\ h_i = 0
    /\ h_last = "none"
    /\ h_file = "none"
    /\ h_err = "none"
    /\ h_text = ""
    /\ h_reported = "none"
    /\ h_ops = <<>>

\* No directory: the argument of _find_latest_file where it is not applied.
NoDir == [allowed |-> {}, entries |-> <<>>]

\* A result is <<>> before the function is applied and <<value>> after.
Unset == <<>>
Result(v) == <<v>>

InitResults ==
    /\ x_canon = Unset
    /\ x_canon2 = Unset
    /\ x_plan = Unset
    /\ x_rec = Unset
    /\ x_sup = Unset
    /\ x_platform = Unset
    /\ x_msg = Unset
    /\ x_found = Unset

Init ==
    /\ InitPool
    /\ InitLocals
    /\ h_mode = "video"
    /\ h_platform = "other"
    /\ x_in = ""
    /\ x_dir = NoDir
    /\ InitResults
    /\ InitFront

Next ==
    \/ \E c \in Callers : AddDownloadInvalidMode(c)
    \/ \E c \in Callers, u \in Users : AddDownloadCall(c, u)
    \/ \E c \in Callers : AddDownloadGranted(c)
    \/ \E c \in Callers : AddDownloadDenied(c)
    \/ \E w \in Workers : WorkerGet(w)
    \/ \E w \in Workers : WorkerStartGranted(w)
    \/ \E w \in Workers : RunTask(w)
    \/ \E w \in Workers : WorkerExcept(w)
    \/ \E w \in Workers : WorkerFinishGranted(w)
    \/ StopCall
    \/ StopJoin

\* The pool: any number of calls of add_download and one of stop().
Spec == Init /\ [][Next]_vars

\* One call of _handle_download, for every mode and platform.
InitTask ==
    /\ InitPool
    /\ InitLocals
    /\ h_mode \in Modes
    /\ h_platform \in Platforms
    /\ x_in = ""
    /\ x_dir = NoDir
    /\ InitResults
    /\ InitFront

NextTask ==
    \/ TaskCreateTempDir
    \/ TaskAnswer
    \/ TaskDispatch
    \/ TaskTransfer
    \/ TaskYtdlp
    \/ TaskAttempt
    \/ TaskHtml
    \/ TaskCheck
    \/ TaskSend
    \/ TaskReport

SpecTask == InitTask /\ [][NextTask]_vars

\* ---- the functions on texts
\* URLs: a scheme and host, a path, a query.
UrlHosts ==
    { "https://www.tiktok.com", "http://www.tiktok.com",
      "https://vm.tiktok.com", "https://m.tiktok.com" }
UrlPaths ==
    { "/@user/video/12345", "/@_/video/12345", "/@user/video/123456",
      "/ZMabc/", "/@user/video/", "/@user/video/abc/video/777",
      "/v/12345.html", "/@user7/photo/12345" }
UrlQueries == { "", "?lang=en", "?next=/video/9" }
Urls == {h \o p \o q : h \in UrlHosts, p \in UrlPaths, q \in UrlQueries}

\* Texts of exceptions: where the failure is attributed, what failed, and a
\* trailer.
TextPrefixes ==
    { "ERROR: [TikTok] 7: ", "ERROR: [youtube] x: ", "tiktok: ", "" }
TextBodies ==
    { "Unable to extract webpage video data", "Unable to download webpage",
      "Video not available", "ExtractorError", "This video is DRM protected",
      "HTTP Error 403: Forbidden", "unable to extract webpage",
      "Video unavailable" }
TextTrailers == { "", "; please report this issue" }
Texts ==
    {a \o b \o c : a \in TextPrefixes, b \in TextBodies, c \in TextTrailers}

\* URLs as handle_url_message sees them: a scheme and host, and the rest.
WebHosts ==
    { "https://youtube.com", "https://youtu.be", "https://www.tiktok.com",
      "https://vt.tiktok.com", "https://instagram.com",
      "https://facebook.com", "https://twitter.com", "https://x.com",
      "https://vk.com", "https://m.vkvideo.ru", "HTTPS://M.VKVIDEO.RU",
      "https://reddit.com", "https://pinterest.com", "https://pin.it",
      "https://dailymotion.com", "https://vimeo.com",
      "https://soundcloud.com", "https://unknown-site.com",
      "http://cdn.example.org", "https://vkvideo.ru" }
WebPaths ==
    { "/video", "/watch?v=test", "/clip.MP4", "/a.mp4?x=1#t", "/song.mp3x",
      "/f.ogg#frag", "/go?to=youtu.be/abc" }
WebUrls == {h \o p : h \in WebHosts, p \in WebPaths}

\* The URLs is_supported_url and detect_platform are applied to.
UrlInputs == Urls \cup WebUrls

\* s repeated n times.
RECURSIVE Repeat(_, _)
Repeat(s, n) ==
    IF n = 0 THEN ""
    ELSE IF n = 1 THEN s
    ELSE Repeat(s, n \div 2) \o Repeat(s, n - (n \div 2))

\* Texts longer than the limit of the diagnostic, with a character that
\* html.escape expands across the limit, and one that is longer only after
\* the escape.
LongTexts ==
    { "E: " \o Repeat("x", 345) \o "<b> & more",
      "E: " \o Repeat("x", 340) \o "<<<" }

\* Texts of exceptions that match several tests of to_user_message, one, or
\* none, in either case of the letters, and the texts _handle_download
\* raises itself.
Messages ==
    { "This video is DRM protected; unsupported client",
      "Unsupported URL: file too large",
      "File is too large; request timed out",
      "max_filesize exceeded, no space left on disk",
      "Read TIMEOUT while writing to disk",
      "No space left on device",
      "unable to extract webpage video data: disk quota",
      "[TikTok] Unable to extract webpage video data; Video not available",
      "This is a Private video",
      "Video not available, timeout",
      "#R#a#z#m#e#r #f#a#y#l#a",
      "HTTP Error 404: <Not Found> & \"gone\"",
      "it's gone",
      NoDiskText, NotFoundText, TooLargeText } \cup LongTexts

\* The texts to_user_message is applied to.
MessageInputs == Texts \cup Messages

InitText ==
    /\ InitPool
    /\ InitLocals
    /\ h_mode = "video"
    /\ h_platform = "other"
    /\ x_in \in Urls \cup Texts \cup WebUrls \cup Messages
    /\ x_dir = NoDir
    /\ InitResults
    /\ InitFront

Canonicalize ==
    /\ x_canon = Unset
    /\ x_canon' = Result(CanonicalizeTiktokVideoUrl(x_in))
    /\ UNCHANGED <<linkvars, poolvars, taskvars, x_in, x_canon2, x_plan, x_rec, x_sup,
                   x_platform, x_msg, x_dir, x_found>>

CanonicalizeAgain ==
    /\ x_canon \notin {Unset, Result(NoUrl)}
    /\ x_canon2 = Unset
    /\ x_canon2' = Result(CanonicalizeTiktokVideoUrl(x_canon[1]))
    /\ UNCHANGED <<linkvars, poolvars, taskvars, x_in, x_canon, x_plan, x_rec, x_sup,
                   x_platform, x_msg, x_dir, x_found>>

BuildPlan ==
    /\ x_plan = Unset
    /\ x_plan' = Result(TiktokAttemptPlan(x_in))
    /\ UNCHANGED <<linkvars, poolvars, taskvars, x_in, x_canon, x_canon2, x_rec, x_sup,
                   x_platform, x_msg, x_dir, x_found>>

Classify ==
    /\ x_rec = Unset
    /\ x_rec' = Result(IsTiktokExtractionError(x_in))
    /\ UNCHANGED <<linkvars, poolvars, taskvars, x_in, x_canon, x_canon2, x_plan, x_sup,
                   x_platform, x_msg, x_dir, x_found>>

\* handlers.py line 93: is_supported_url(url).
SupportCheck ==
    /\ x_in \in UrlInputs
    /\ x_sup = Unset
    /\ x_sup' = Result(IsSupportedUrl(x_in))
    /\ UNCHANGED <<linkvars, poolvars, taskvars, x_in, x_canon, x_canon2, x_plan, x_rec,
                   x_platform, x_msg, x_dir, x_found>>

\* handlers.py line 97 and managers.py line 188: detect_platform(url).
Detect ==
    /\ x_in \in UrlInputs
    /\ x_platform = Unset
    /\ x_platform' = Result(DetectPlatform(x_in))
    /\ UNCHANGED <<linkvars, poolvars, taskvars, x_in, x_canon, x_canon2, x_plan, x_rec,
                   x_sup, x_msg, x_dir, x_found>>

\* errors.py lines 31-80: to_user_message(error).
ToMessage ==
    /\ x_in \in MessageInputs
    /\ x_msg = Unset
    /\ x_msg' = Result(UserMessage(x_in))
    /\ UNCHANGED <<linkvars, poolvars, taskvars, x_in, x_canon, x_canon2, x_plan, x_rec,
                   x_sup, x_platform, x_dir, x_found>>

NextText ==
    \/ Canonicalize
    \/ CanonicalizeAgain
    \/ BuildPlan
    \/ Classify
    \/ SupportCheck
    \/ Detect
    \/ ToMessage

\* Each function applied to each argument of the bounded sets.
SpecText == InitText /\ [][NextText]_vars

\* ---- _find_latest_file within a task
\* The largest number of entries and the latest modification time of the
\* directories tried.
MaxFiles == 3
MaxMtime == 2

\* Suffixes as Path.suffix gives them: a video one, an audio one in capitals,
\* and the one of a partial download.
Suffixes == {".mp4", ".MP3", ".part"}

Entries ==
    {[kind |-> "dir", ext |-> "", mtime |-> 1]}
       \cup {[kind |-> "file", ext |-> e, mtime |-> m] :
                e \in Suffixes, m \in 1..MaxMtime}

\* What yt-dlp may leave in the temporary directory of a task of mode mode.
Workspaces(mode) ==
    {[allowed |-> AllowedExt(mode), entries |-> s] :
        s \in UNION {[1..n -> Entries] : n \in 0..MaxFiles}}

\* A task of a platform other than TikTok and DIRECT, and the directory its
\* one yt-dlp call will leave.
InitFiles ==
    /\ InitPool
    /\ InitLocals
    /\ h_mode \in Modes
    /\ h_platform = "other"
    /\ x_in = ""
    /\ x_dir \in Workspaces(h_mode)
    /\ InitResults
    /\ InitFront

\* Line 484 raises: extract_info fails.
YtdlpRaises ==
    /\ h_pc = "ytdlp"
    /\ x_found = Unset
    /\ \E t \in YtdlpTexts :
          RaiseOp(Op("ytdlp", 0, t), "extract", t, h_temp_dir, h_last)

\* Line 486: extract_info has returned and _find_latest_file is evaluated.
YtdlpFind ==
    /\ h_pc = "ytdlp"
    /\ x_found = Unset
    /\ x_found' = Result(FindLatestFile(x_dir))
    /\ UNCHANGED <<linkvars, poolvars, taskvars, x_in, x_canon, x_canon2, x_plan, x_rec,
                   x_sup, x_platform, x_msg, x_dir>>

\* Lines 216-224 and 152: the result goes back to _handle_download: None, or
\* the path of a file within or over MAX_FILE_SIZE_MB.
YtdlpReturn ==
    /\ h_pc = "ytdlp"
    /\ x_found # Unset
    /\ IF x_found[1] = NoFile
       THEN Retrieved("ytdlp", "none")
       ELSE \E f \in {"ok", "big"} : Retrieved("ytdlp", f)

NextFiles ==
    \/ TaskCreateTempDir
    \/ TaskAnswer
    \/ TaskDispatch
    \/ YtdlpRaises
    \/ YtdlpFind
    \/ YtdlpReturn
    \/ TaskCheck
    \/ TaskSend
    \/ TaskReport

SpecFiles == InitFiles /\ [][NextFiles]_vars

\* The front end over the manager: messages with links, presses of the
\* buttons, and the passing of time.
NextFront ==
    \/ Tick
    \/ \E url \in LinkUrls : UrlMessageUnsupported(url)
    \/ \E u \in Users, url \in LinkUrls, t \in Tokens : UrlMessage(u, url, t)
    \/ \E c \in Callers, u \in Users, d \in CallbackData : CallbackStart(c, u, d)
    \/ CallbackAdded
    \/ CallbackReturn

SpecFront == Init /\ [][NextFront]_vars


\* The pool under the scheduling of the event loop: a coroutine that can run
\* is eventually run, every awaited external call (a task's execution, the
\* refusal message) eventually returns or raises, and a lock that is handed
\* over is taken.  Calls of add_download and of stop() are not forced.
Fairness ==
    /\ \A w \in Workers :
          /\ WF_vars(WorkerGet(w))
          /\ WF_vars(WorkerStartGranted(w))
          /\ WF_vars(RunTask(w))
          /\ WF_vars(WorkerExcept(w))
          /\ WF_vars(WorkerFinishGranted(w))
    /\ \A c \in Callers :
          /\ WF_vars(AddDownloadGranted(c))
          /\ WF_vars(AddDownloadDenied(c))
    /\ WF_vars(StopJoin)

SpecLive == Init /\ [][Next]_vars /\ Fairness

\* ------------------------------------------------------------------ claims
Count(u) == UserCount(active_tasks, queued_tasks, u)
CountNext(u) == UserCount(active_tasks', queued_tasks', u)

\* This step admits a task of requester u: a new id is taken and enqueued.
AdmittedNow(u) ==
    /\ task_counter' # task_counter
    /\ queue' # <<>>
    /\ queue'[Len(queue')].user = u

\* This step refuses a call of requester u (line 71 is true).
DeniedNow(u) ==
    \E c \in Callers : cpc[c] # "denying" /\ cpc'[c] = "denying" /\ cuser'[c] = u

\* This step completes _mark_task_finished for a task of requester u.
FinishedNow(u) ==
    \E w \in Workers :
        /\ wpc[w] \in {"run", "except", "finish_wait"}
        /\ wpc'[w] = "get"
        /\ wtask[w].user = u

\* The workers between _mark_task_started and _mark_task_finished.
Executing == {w \in Workers : wpc[w] \in {"run", "except", "finish_wait"}}

IsTask(item) == item # Sentinel

\* C1: for every requester, in every reachable state, the queued count plus
\* the number of active tasks is at most max_concurrent.
C1_QuotaBound ==
    \A u \in Users : Count(u) <= MaxConcurrent

\* A requester exactly at the cap, with a task in each of the two slots.
C1_Witness ==
    \E u \in Users :
        /\ GetQueued(queued_tasks, u) >= 1
        /\ GetActive(active_tasks, u) # {}
        /\ Count(u) = MaxConcurrent

\* C2: a call with a valid mode is admitted exactly when the requester's
\* queued + active count is below max_concurrent while the call holds the
\* lock; an admission takes the next task id, appends the task to the queue
\* and raises the requester's queued count by exactly one; a refusal leaves
\* the queue and the quota state alone.
C2_AdmitIffBelowCap ==
    [][\A u \in Users :
          /\ AdmittedNow(u) =>
                /\ Count(u) < MaxConcurrent
                /\ task_counter' = task_counter + 1
                /\ queue' = Append(queue, Item(task_counter', u))
                /\ GetQueued(queued_tasks', u) = GetQueued(queued_tasks, u) + 1
                /\ \A v \in Users \ {u} :
                      GetQueued(queued_tasks', v) = GetQueued(queued_tasks, v)
                /\ active_tasks' = active_tasks
          /\ DeniedNow(u) =>
                /\ ~(Count(u) < MaxConcurrent)
                /\ UNCHANGED <<queue, quota>>
          /\ task_counter' # task_counter => \E v \in Users : AdmittedNow(v)
      ]_vars

\* A call is being refused while admitted tasks are in the system.
C2_Witness ==
    \E c \in Callers :
        /\ cpc[c] = "denying"
        /\ GetQueued(queued_tasks, cuser[c]) >= 1
        /\ task_counter >= MaxConcurrent

\* C3: a requester whose queued + active count equals max_concurrent is not
\* admitted; when _mark_task_finished has run for one of its tasks the count
\* is below the cap, it stays below until that requester is admitted again,
\* and no call of a requester below the cap is refused: the requester's next
\* call after the finish is admitted.
C3_DeniedAtCapAdmittedAfterFinish ==
    [][\A u \in Users :
          /\ Count(u) = MaxConcurrent => ~AdmittedNow(u)
          /\ FinishedNow(u) => CountNext(u) < MaxConcurrent
          /\ (Count(u) < MaxConcurrent /\ ~(CountNext(u) < MaxConcurrent))
                => AdmittedNow(u)
          /\ DeniedNow(u) => Count(u) = MaxConcurrent /\ quota_ev # <<"freed", u>>
      ]_vars

\* A requester was refused at the cap, one of its tasks finished, and its
\* next call was admitted.
C3_Witness ==
    \E u \in Users : quota_ev = <<"readmitted", u>>

\* C4: a worker holds at most one task, between _mark_task_started and
\* _mark_task_finished; the tasks in execution are exactly the ones the
\* workers hold, their number equals the processing counter, and it never
\* exceeds max_concurrent.
C4_ExecutingBound ==
    /\ processing = Cardinality(Executing)
    /\ processing <= MaxConcurrent
    /\ \A w \in Workers :
          /\ w \in Executing => wtask[w].id \in GetActive(active_tasks, wtask[w].user)
          /\ wpc[w] \in {"get", "exited"} => wtask[w] = NoItem
    /\ \A w1, w2 \in Executing : w1 # w2 => wtask[w1].id # wtask[w2].id
    /\ \A u \in DOMAIN active_tasks :
          active_tasks[u] = {wtask[w].id : w \in {x \in Executing : wtask[x].user = u}}

\* Every worker is executing a task while another task waits in the queue.
C4_Witness ==
    /\ processing = MaxConcurrent
    /\ \E i \in 1..Len(queue) : IsTask(queue[i])

\* C5: every admitted task is dequeued, executed and released from its
\* requester's quota, also when stop() is called.  Once stop() has returned
\* no worker is left, so the claim requires that at that moment no admitted
\* task is still in the queue or counted as queued.
C5_NoAdmittedTaskLeftBehind ==
    [][(spc # "done" /\ spc' = "done") =>
          /\ \A i \in 1..Len(queue') : ~IsTask(queue'[i])
          /\ queued_tasks' = EmptyDict
      ]_vars

\* C6: tasks are started in the order of their ids: _mark_task_started runs
\* for task 1, then task 2, and so on, whichever workers take them.
C6_StartedInAdmissionOrder ==
    \A i \in 1..Len(started) : started[i] = i

\* Two workers contended for the lock in _mark_task_started: the one with the
\* earlier task has started it, the one with the later task still waits.
C6_Witness ==
    \E w1, w2 \in Workers :
        /\ wpc[w1] = "run"
        /\ wpc[w2] = "start_wait"
        /\ wtask[w1].id < wtask[w2].id

\* C7 (as claimed): the status moves only along Queued->Downloading,
\* Downloading->Sending, Sending->Completed, Downloading->Failed and
\* Sending->Failed.
C7_OnlyClaimedTransitions ==
    [][h_status' # h_status =>
          <<h_status, h_status'>> \in
             { <<"queued", "downloading">>, <<"downloading", "sending">>,
               <<"sending", "completed">>, <<"downloading", "failed">>,
               <<"sending", "failed">> }
      ]_vars

\* C7 (amended): the status moves only along the claimed transitions and
\* Queued->Failed; Completed is entered only from Sending.
C7_OnlyForwardTransitions ==
    [][h_status' # h_status =>
          <<h_status, h_status'>> \in
             { <<"queued", "downloading">>, <<"downloading", "sending">>,
               <<"sending", "completed">>, <<"downloading", "failed">>,
               <<"sending", "failed">>, <<"queued", "failed">> }
      ]_vars

\* The task failed before DOWNLOADING was ever set.
C7_Witness ==
    /\ h_status = "failed"
    /\ h_err \in {"mkdir", "nodisk", "answer"}
    /\ ~h_status_msg

\* C8: once the status is Completed or Failed it never changes again, also
\* when reporting the failure raises.
C8_TerminalIsFinal ==
    [][(h_status \in Terminal) => (h_status' = h_status)]_vars

\* The failure report itself raised and the task is still Failed.
C8_Witness ==
    /\ h_pc = "raised"
    /\ h_status = "failed"

\* C9: every statement of _handle_download that is not its last has a next
\* step (each external call returns or raises; the failure report at line 170
\* always has one, returning or raising), and the call returns or raises only
\* with the status Completed or Failed.
C9_EndsTerminal ==
    /\ h_pc \in {"returned", "raised"} => h_status \in Terminal
    /\ h_pc \notin {"returned", "raised", "report"} =>
          ENABLED (\/ TaskCreateTempDir \/ TaskAnswer \/ TaskDispatch
                   \/ TaskTransfer \/ TaskYtdlp \/ TaskAttempt \/ TaskHtml
                   \/ TaskCheck \/ TaskSend)

\* The call returned normally after a failure in the retrieval.
C9_Witness ==
    /\ h_pc = "returned"
    /\ h_status = "failed"
    /\ h_err \in {"transfer", "extract", "fatal", "recoverable"}

\* C10: stop() returns only when every worker has exited, with no task in
\* execution, active_tasks empty and processing 0; and a worker exits only
\* from queue.get(), never while it holds a task.
C10_StopWaitsForWorkers ==
    [][/\ spc' = "done" =>
             /\ \A w \in Workers : wpc'[w] = "exited"
             /\ active_tasks' = EmptyDict
             /\ processing' = 0
       /\ \A w \in Workers :
             (wpc[w] # "exited" /\ wpc'[w] = "exited") =>
                 wpc[w] = "get" /\ wtask[w] = NoItem
      ]_vars

\* stop() has returned after the pool ran more tasks than it has workers.
C10_Witness ==
    /\ spc = "done"
    /\ Len(started) > NumWorkers

\* The sentinels waiting in the queue, and the workers that have exited.
SentinelsQueued == Cardinality({i \in 1..Len(queue) : queue[i] = Sentinel})
Exited == {w \in Workers : wpc[w] = "exited"}

\* C11: stop() enqueues one sentinel per worker; a worker exits exactly by
\* consuming one sentinel and takes nothing from the queue afterwards, so the
\* sentinels still queued plus the workers exited always equal the number of
\* workers, and none is left when stop() has returned; with every running
\* task terminating, stop() eventually returns.
C11_OneSentinelPerWorker ==
    /\ [](/\ spc = "idle" => SentinelsQueued = 0 /\ Exited = {}
          /\ spc # "idle" => SentinelsQueued + Cardinality(Exited) = NumWorkers
          /\ spc = "done" => SentinelsQueued = 0)
    /\ [][\A w \in Workers :
            /\ wpc[w] = "exited" => wpc'[w] = "exited" /\ wtask'[w] = NoItem
            /\ (wpc[w] # "exited" /\ wpc'[w] = "exited") =>
                  /\ QueueFront(queue) = Sentinel
                  /\ queue' = QueueRest(queue)
         ]_vars
    /\ (spc = "joining") ~> (spc = "done")

\* stop() has returned after the pool executed at least one task, with
\* every sentinel consumed and every worker exited.
C11_Witness ==
    /\ spc = "done"
    /\ SentinelsQueued = 0
    /\ Exited = Workers
    /\ started # <<>>
    /\ queue = <<>>

\* C12: an exception that escapes _handle_download never ends the worker:
\* from the except clause the worker only goes on to _mark_task_finished for
\* the task it holds and from there back to queue.get(); catching the
\* exception changes no quota state, and the release removes exactly that
\* task, leaving the queue and the counts of every other requester and every
\* other task as they were.
C12_ExceptionKeepsWorker ==
    [][\A w \in Workers :
          /\ (wpc[w] = "run" /\ wpc'[w] = "except") =>
                UNCHANGED <<queue, quota, wtask>>
          /\ wpc[w] = "except" =>
                /\ wpc'[w] \in {"except", "finish_wait", "get"}
                /\ wtask'[w] \in {wtask[w], NoItem}
          /\ wpc[w] = "finish_wait" => wpc'[w] \in {"finish_wait", "get"}
          /\ (wpc[w] \in {"except", "finish_wait"} /\ wpc'[w] = "get") =>
                /\ processing' = processing - 1
                /\ GetActive(active_tasks', wtask[w].user)
                      = GetActive(active_tasks, wtask[w].user) \ {wtask[w].id}
                /\ \A v \in Users \ {wtask[w].user} :
                      GetActive(active_tasks', v) = GetActive(active_tasks, v)
                /\ queued_tasks' = queued_tasks
                /\ queue' = queue
                /\ \A x \in Workers \ {w} :
                      wpc'[x] = wpc[x] /\ wtask'[x] = wtask[x]
      ]_vars

\* A task has raised in one worker while another worker is executing a task
\* and a further task waits in the queue.
C12_Witness ==
    \E w1, w2 \in Workers :
        /\ wpc[w1] = "except"
        /\ wpc[w2] = "run"
        /\ \E i \in 1..Len(queue) : IsTask(queue[i])

\* C13: when _handle_download has returned or raised, whatever the outcome,
\* the task's temporary directory no longer exists.
C13_TempDirRemoved ==
    h_pc \in {"returned", "raised"} => h_temp_dir # "exists"

\* C14: a task whose file is larger than MAX_FILE_SIZE_MB ends Failed, and
\* when its failure has been reported to the requester the message is the
\* one of the "too large" category.
C14_TooLargeReportedAsTooLarge ==
    (h_err = "toolarge" /\ h_pc = "returned") =>
        (h_status = "failed" /\ h_reported = "too_large")

\* This step completes _mark_task_started in worker w.
StartedNow(w) == wpc[w] \in {"get", "start_wait"} /\ wpc'[w] = "run"

\* This step completes _mark_task_finished in worker w.
ReleasedNow(w) ==
    wpc[w] \in {"run", "except", "finish_wait"} /\ wpc'[w] = "get"

\* The quota entries of all requesters but u are the same after the step.
OthersUnchanged(u) ==
    \A v \in Users \ {u} :
        /\ GetQueued(queued_tasks', v) = GetQueued(queued_tasks, v)
        /\ GetActive(active_tasks', v) = GetActive(active_tasks, v)

\* C15: _mark_task_started for requester r and task t lowers queued_tasks[r]
\* by one, not below 0, and adds t to active_tasks[r], so that r's queued +
\* active count and the entries of the other requesters stay as they were;
\* _mark_task_finished removes exactly t from active_tasks[r] and changes
\* nothing else of the two maps.
C15_StartFinishFrame ==
    [][\A w \in Workers :
          /\ StartedNow(w) =>
                LET r == wtask'[w].user
                    t == wtask'[w].id
                    q == GetQueued(queued_tasks, r) IN
                /\ GetQueued(queued_tasks', r) = IF q > 0 THEN q - 1 ELSE 0
                /\ t \notin GetActive(active_tasks, r)
                /\ GetActive(active_tasks', r) = GetActive(active_tasks, r) \cup {t}
                /\ CountNext(r) = Count(r)
                /\ OthersUnchanged(r)
          /\ ReleasedNow(w) =>
                LET r == wtask[w].user
                    t == wtask[w].id IN
                /\ t \in GetActive(active_tasks, r)
                /\ GetActive(active_tasks', r) = GetActive(active_tasks, r) \ {t}
                /\ GetQueued(queued_tasks', r) = GetQueued(queued_tasks, r)
                /\ OthersUnchanged(r)
      ]_vars

\* The only task admitted so far has gone from queued = 1 over active = {1}
\* to no entry at all.
C15_Witness ==
    /\ task_counter = 1
    /\ started = <<1>>
    /\ \A w \in Workers : wpc[w] = "get"
    /\ active_tasks = EmptyDict
    /\ queued_tasks = EmptyDict

\* C16: queued_tasks holds no count <= 0 and active_tasks holds no empty
\* set, in every reachable state; a requester without queued or active tasks
\* has an entry in neither map.
C16_NoZeroEntries ==
    /\ \A u \in DOMAIN queued_tasks : queued_tasks[u] > 0
    /\ \A u \in DOMAIN active_tasks : active_tasks[u] # {}
    /\ \A u \in Users :
          Count(u) = 0 => u \notin DOMAIN queued_tasks \cup DOMAIN active_tasks

\* Several tasks were admitted, all of them have finished, and both maps
\* are empty again.
C16_Witness ==
    /\ task_counter >= 2
    /\ Len(started) = task_counter
    /\ processing = 0
    /\ active_tasks = EmptyDict
    /\ queued_tasks = EmptyDict

\* The list the plan is claimed to be: the four candidates in priority
\* order, those of an absent canonical form left out, later duplicates of a
\* pair left out.
ClaimedPlan(u, c) ==
    LET all == << <<u, FALSE>>, <<c, FALSE>>, <<u, TRUE>>, <<c, TRUE>> >>
        keep == {i \in 1..4 : /\ all[i][1] # NoUrl
                               /\ \A j \in 1..(i - 1) : all[j] # all[i]}
        pos(i) == Cardinality({j \in keep : j <= i})
    IN [k \in 1..Cardinality(keep) |-> all[CHOOSE i \in keep : pos(i) = k]]

\* C17: the plan of URL u with canonical form c is the list (u, web),
\* (c, web), (u, app), (c, app) without the entries of an absent c and
\* without later duplicates; no pair occurs twice; without "/video/<digits>"
\* there are at most 2 entries; and when the video id is 12345 the second
\* entry's URL is https://www.tiktok.com/@_/video/12345.
C17_PlanIsFilteredPriorityList ==
    x_plan # Unset =>
        LET c == CanonicalizeTiktokVideoUrl(x_in)
            plan == x_plan[1] IN
        /\ plan = ClaimedPlan(x_in, c)
        /\ \A i, j \in 1..Len(plan) : i # j => plan[i] # plan[j]
        /\ VideoIdStarts(x_in) = {} => Len(plan) <= 2
        /\ (VideoIdStarts(x_in) # {} /\ VideoId(x_in) = "12345") =>
              plan[2][1] = "https://www.tiktok.com/@_/video/12345"

\* A plan of four entries was built for a URL with video id 12345.
C17_Witness ==
    /\ x_plan # Unset
    /\ Len(x_plan[1]) = 4
    /\ VideoIdStarts(x_in) # {}
    /\ VideoId(x_in) = "12345"

\* C18: when canonicalizing a URL yields a URL c, canonicalizing c yields c
\* again.
C18_CanonicalizeIdempotent ==
    x_canon2 # Unset => x_canon2 = x_canon

\* The canonical form of a URL that was not canonical itself has been
\* canonicalized again.
C18_Witness ==
    /\ x_canon2 # Unset
    /\ x_canon[1] # x_in
    /\ x_canon2[1] # NoUrl

\* C19: _is_tiktok_extraction_error is true exactly when the lower-cased text
\* contains "tiktok" and one of the four transient phrases; a text with a
\* transient phrase but without the platform's name is not recoverable.
C19_RecoverableIffNameAndPhrase ==
    x_rec # Unset =>
        LET msg == Lower(x_in)
            name == Contains(msg, "tiktok")
            phrase == \/ Contains(msg, "unable to extract webpage video data")
                      \/ Contains(msg, "unable to download webpage")
                      \/ Contains(msg, "video not available")
                      \/ Contains(msg, "extractorerror")
        IN /\ x_rec[1] = (name /\ phrase)
           /\ (phrase /\ ~name) => x_rec[1] = FALSE

\* "video not available" without the platform's name was classified as not
\* recoverable.
C19_Witness ==
    /\ x_rec = Result(FALSE)
    /\ Contains(Lower(x_in), "video not available")
    /\ ~Contains(Lower(x_in), "tiktok")

\* C20: in the TikTok loop the next plan entry is attempted, and the HTML
\* fallback is reached, only after an attempt failed with an error classified
\* recoverable; an attempt's error that is not recoverable ends the fetch at
\* once with that error: the except clause of _handle_download follows, and
\* after it no plan entry and no HTML fallback is tried.
C20_OnlyRecoverableContinues ==
    [][/\ (h_pc = "attempt" /\ h_pc' = "attempt" /\ h_i' # h_i) =>
             /\ h_i' = h_i + 1
             /\ h_i' <= Len(h_plan)
             /\ IsTiktokExtractionError(h_last')
       /\ (h_pc = "attempt" /\ h_pc' = "html") =>
             /\ h_i = Len(h_plan)
             /\ IsTiktokExtractionError(h_last')
       /\ (h_pc = "attempt" /\ h_last' # h_last
              /\ ~IsTiktokExtractionError(h_last')) =>
             /\ h_pc' = "report"
             /\ h_text' = h_last'
             /\ h_i' = h_i
       /\ h_pc = "report" => h_pc' \in {"report", "returned", "raised"}
      ]_vars

\* The second attempt failed with an error that is not recoverable while
\* the plan had further entries: the fetch ended there.
C20_Witness ==
    /\ h_err = "fatal"
    /\ h_pc \in {"returned", "raised"}
    /\ h_i = 2
    /\ h_i < Len(h_plan)
    /\ ~IsTiktokExtractionError(h_text)


\* The outcomes of a retrieval operation that returned instead of raising.
ReturnedOutcomes == {"none", "ok", "big"}

OpReturned(op) == OpOutcome(op) \in ReturnedOutcomes

\* C21: the attempt plan is consumed in order and stops at the first attempt
\* that returns: the n-th operation of a TikTok task is plan entry n as long
\* as the loop runs, every attempt before an attempt that returned failed
\* with a recoverable error, the attempt that returned is the last operation
\* of the task (no later attempt, no HTML fallback) and its output is the
\* output of the fetch, and once that output is delivered the task has ended
\* Completed.
C21_PlanStopsAtFirstSuccess ==
    /\ \A n \in 1..Len(h_ops) :
          OpKind(h_ops[n]) = "attempt" =>
             /\ OpIndex(h_ops[n]) = n
             /\ n <= Len(h_plan)
             /\ \A m \in 1..(n - 1) :
                   /\ OpKind(h_ops[m]) = "attempt"
                   /\ IsTiktokExtractionError(OpOutcome(h_ops[m]))
             /\ OpReturned(h_ops[n]) =>
                   /\ n = Len(h_ops)
                   /\ h_file = OpOutcome(h_ops[n])
                   /\ h_pc \notin {"attempt", "html"}
    /\ ( /\ h_pc = "returned"
         /\ h_err = "none"
         /\ Len(h_ops) > 0
         /\ OpKind(h_ops[Len(h_ops)]) = "attempt" )
       => /\ h_status = "completed"
          /\ h_file = "ok"
          /\ h_ops[Len(h_ops)] = Op("attempt", Len(h_ops), "ok")

\* Scenario B: three recoverable failures, the fourth attempt leaves a file,
\* the task ends Completed.
C21_Witness ==
    /\ h_pc = "returned"
    /\ h_status = "completed"
    /\ Len(h_plan) = 4
    /\ Len(h_ops) = 4
    /\ h_ops[4] = Op("attempt", 4, "ok")
    /\ \A m \in 1..3 : IsTiktokExtractionError(OpOutcome(h_ops[m]))

\* The plan was exhausted and the HTML fallback found nothing.
FallbackFoundNothing ==
    /\ Len(h_ops) > 0
    /\ h_ops[Len(h_ops)] = Op("html", 0, "none")

\* C22: when every plan attempt failed with a recoverable error and the HTML
\* fallback found no media, the task ends Failed and the report sent is the
\* one of the extractor-outage category, whatever the recoverable texts were.
C22_ExhaustedReportedAsOutage ==
    (FallbackFoundNothing /\ h_pc = "returned")
       => (h_status = "failed" /\ h_reported = "tiktok_data")

\* Operations 1..n of the task are the plan entries 1..n in order, each
\* failed with a recoverable error.
FailedRecoverably(n) ==
    /\ n <= Len(h_ops)
    /\ \A m \in 1..n :
          /\ OpKind(h_ops[m]) = "attempt"
          /\ OpIndex(h_ops[m]) = m
          /\ IsTiktokExtractionError(OpOutcome(h_ops[m]))

\* The conditions under which the HTML fallback may run.
FallbackDue ==
    /\ h_platform = "tiktok"
    /\ h_mode = "video"
    /\ Len(h_plan) > 0
    /\ FailedRecoverably(Len(h_plan))

\* C23: the HTML fallback is invoked at most once per task, and only for a
\* TikTok task in video mode whose plan entries have all failed with a
\* recoverable error: never in audio mode, never before the plan is
\* exhausted, never after an attempt returned or failed with another error,
\* and nothing is retrieved after it.
C23_FallbackOnceAndLast ==
    /\ h_pc = "html" => (FallbackDue /\ Len(h_ops) = Len(h_plan))
    /\ \A n \in 1..Len(h_ops) :
          OpKind(h_ops[n]) = "html" =>
             /\ FallbackDue
             /\ n = Len(h_plan) + 1
             /\ n = Len(h_ops)
             /\ h_pc \notin {"attempt", "html"}
    /\ h_mode = "audio" => \A n \in 1..Len(h_ops) : OpKind(h_ops[n]) # "html"

\* The fallback has run as the fifth operation, after a plan of four entries
\* that all failed with a recoverable error.
C23_Witness ==
    /\ Len(h_ops) = 5
    /\ OpKind(h_ops[5]) = "html"
    /\ FailedRecoverably(4)
    /\ h_pc \in {"check", "report"}

\* C24: when the plan is exhausted and the HTML fallback gave no file or did
\* not apply (audio mode), the error that leaves the fetch is the error of
\* the last plan attempt, the one made with the last entry of the plan; what
\* went wrong inside the fallback never takes its place.
C24_LastAttemptErrorSurfaces ==
    h_err = "recoverable" =>
       /\ FailedRecoverably(Len(h_plan))
       /\ h_text = OpOutcome(h_ops[Len(h_plan)])
       /\ h_text = h_last
       /\ h_text \notin HtmlFailures
       /\ \/ h_mode = "audio" /\ Len(h_ops) = Len(h_plan)
          \/ h_mode = "video" /\ FallbackFoundNothing

\* The fallback failed after the plan, and the error of the fourth attempt
\* is the one reported.
C24_Witness ==
    /\ h_pc = "report"
    /\ h_err = "recoverable"
    /\ FallbackFoundNothing
    /\ Len(h_plan) = 4
    /\ h_text = OpOutcome(h_ops[4])
    /\ OpOutcome(h_ops[3]) # OpOutcome(h_ops[4])

\* The call has left the try block through the except clause.
EndedWithError == h_pc \in {"report", "returned", "raised"} /\ h_err # "none"

\* C25 as stated: the error with which a TikTok task ends Failed is never
\* one that _is_tiktok_extraction_error accepts.
C25_RecoverableNeverSurfaces ==
    (h_platform = "tiktok" /\ h_status = "failed")
       => ~IsTiktokExtractionError(h_text)

\* C25 as the code has it: a recoverable error stays inside the retry loop
\* as long as a plan entry is left, and an error raised out of the loop before
\* its end is never a recoverable one; but when the last entry has failed
\* recoverably too and the HTML fallback gave no file or did not apply, the
\* last recoverable error is raised to the caller and the task ends Failed
\* with it.
C25_RecoverableSurfacesOnlyAfterPlan ==
    /\ (h_platform = "tiktok" /\ EndedWithError
          /\ IsTiktokExtractionError(h_text))
          => /\ h_status = "failed"
             /\ h_err = "recoverable"
             /\ FailedRecoverably(Len(h_plan))
             /\ h_text = OpOutcome(h_ops[Len(h_plan)])
    /\ h_err = "fatal" => ~IsTiktokExtractionError(h_text)
    /\ \A n \in 1..Len(h_ops) :
          ( /\ OpKind(h_ops[n]) = "attempt"
            /\ IsTiktokExtractionError(OpOutcome(h_ops[n]))
            /\ n < Len(h_plan)
            /\ n = Len(h_ops) )
          => (h_pc = "attempt" /\ h_i = n + 1 /\ h_err = "none")

\* An audio task has ended Failed with the recoverable error of its last
\* plan entry, and the report was sent.
C25_Witness ==
    /\ h_pc = "returned"
    /\ h_platform = "tiktok"
    /\ h_mode = "audio"
    /\ h_status = "failed"
    /\ IsTiktokExtractionError(h_text)
    /\ Len(h_ops) = Len(h_plan)

\* The retrieval of the call is over: its result is being checked or sent,
\* or the call has ended.
RetrievalOver ==
    h_pc \in {"check", "send"} \/ (Len(h_ops) > 0 /\ h_pc \notin {"attempt", "html"})

\* C26: a task of a platform other than TikTok invokes one retrieval
\* operation and no more: the byte transfer for a direct file, one call of
\* _download_with_ytdlp for any other platform, never the HTML fallback.
\* When that operation raises, the call goes straight to the report with the
\* task Failed and that error, and nothing else is retrieved.
C26_OneRetrievalOutsideTiktok ==
    h_platform # "tiktok" =>
       /\ Len(h_ops) <= 1
       /\ Len(h_plan) = 0
       /\ RetrievalOver => Len(h_ops) = 1
       /\ \A n \in 1..Len(h_ops) :
             /\ OpIndex(h_ops[n]) = 0
             /\ OpKind(h_ops[n]) =
                   (IF h_platform = "direct" THEN "transfer" ELSE "ytdlp")
             /\ ~OpReturned(h_ops[n]) =>
                   /\ h_status = "failed"
                   /\ h_pc \in {"report", "returned", "raised"}
                   /\ h_text = OpOutcome(h_ops[n])
                   /\ h_err \in {"transfer", "extract"}

\* The one extractor call of a task of another platform has raised, and the
\* task has ended Failed with the report sent.
C26_Witness ==
    /\ h_platform = "other"
    /\ h_pc = "returned"
    /\ h_status = "failed"
    /\ Len(h_ops) = 1
    /\ OpKind(h_ops[1]) = "ytdlp"
    /\ h_text = OpOutcome(h_ops[1])

\* Task t has been started by a worker (tasks start in the order of their
\* ids, so the t-th start is the start of task t).
HasStarted(t) == Len(started) >= t /\ started[t] = t

\* Some admitted task has not been started yet.
SomeTaskWaits == Len(started) < task_counter

\* C27: one requester at its cap does not starve the others.  As long as the
\* pool is not being stopped, whenever admitted tasks wait, a state is
\* reached in which every task admitted so far has been started, so no
\* admitted task waits forever, whoever its requester is and however many
\* tasks of other requesters are queued before it, given that workers are
\* scheduled and tasks terminate; and a call of requester v is refused only
\* when v's own queued + active count is at the cap, never because another
\* requester is at its cap.
C27_OthersNotStarved ==
    /\ (SomeTaskWaits /\ spc = "idle") ~> (~SomeTaskWaits \/ spc # "idle")
    /\ [][\A u, v \in Users :
             (u # v /\ Count(u) >= MaxConcurrent /\ Count(v) < MaxConcurrent)
                => ~DeniedNow(v)
         ]_vars

\* Requester u filled its cap and was refused; a task of another requester v
\* was admitted behind u's tasks and, once a worker was free, has started.
C27_Witness ==
    \E u, v \in Users : \E w \in Workers :
        /\ u # v
        /\ quota_ev = <<"freed", u>>
        /\ wpc[w] = "run"
        /\ wtask[w].user = v
        /\ wtask[w].id > MaxConcurrent
        /\ HasStarted(wtask[w].id)
        /\ spc = "idle"

\* The values of Platform that name a platform or a direct file.
KnownPlatforms ==
    {PlatformTests[k][1] : k \in 1..Len(PlatformTests)} \cup {"direct"}

\* C28: no URL of platform UNKNOWN gets past the front end: for every URL,
\* when is_supported_url accepts it, detect_platform gives one of the known
\* platforms or DIRECT for the same URL, which is the URL handle_url_message
\* stores for add_download; and a URL that detect_platform calls UNKNOWN is
\* one is_supported_url refuses.
C28_AcceptedUrlHasPlatform ==
    (x_sup # Unset /\ x_platform # Unset) =>
       /\ x_sup[1] => x_platform[1] \in KnownPlatforms
       /\ x_platform[1] = "unknown" => ~x_sup[1]
       /\ DirectFileRe(x_in) => x_sup[1]

\* A URL of no listed domain that ends in a media extension in capitals is
\* accepted and classified as a direct file.
C28_Witness ==
    /\ x_sup = Result(TRUE)
    /\ x_platform = Result("direct")
    /\ ~\E d \in SupportedDomains : Contains(Lower(x_in), d)
    /\ Contains(x_in, ".MP4")

\* The categories in the order of C29, each with the phrases looked for.
CategoryOrder ==
    << <<"drm", {"drm protected"}>>,
       <<"unsupported", {"unsupported"}>>,
       <<"too_large", {"too large", "#r#a#z#m#e#r", "max_filesize"}>>,
       <<"timeout", {"timeout", "timed out"}>>,
       <<"disk", {"disk", "space"}>>,
       <<"tiktok_data", {"unable to extract webpage video data"}>>,
       <<"unavailable", {"video not available", "private"}>> >>

\* The categories of CategoryOrder of which the lower-cased text holds a
\* phrase, by their positions.
MatchingCategories(text) ==
    {k \in 1..Len(CategoryOrder) :
        \E p \in CategoryOrder[k][2] : Contains(Lower(text), p)}

\* s is the beginning of t.
IsPrefix(s, t) == Len(s) <= Len(t) /\ SubSeq(t, 1, Len(s)) = s

\* C29: to_user_message gives every text one category: that of the earliest
\* test in the order DRM, unsupported, too large, timeout, disk space,
\* extractor outage, unavailable/private of which the text holds a phrase in
\* any case of the letters, whatever later tests it matches too; and the
\* generic category for a text that matches none, with the escaped text cut
\* to 350 characters as the diagnostic.
C29_FirstMatchingCategory ==
    x_msg # Unset =>
       LET category == x_msg[1][1]
           details == x_msg[1][2]
           matching == MatchingCategories(x_in)
           escaped == HtmlEscape(x_in)
       IN /\ matching # {} =>
                /\ category = CategoryOrder[Min(matching)][1]
                /\ details = ""
          /\ matching = {} =>
                /\ category = "generic"
                /\ Len(details) <= DetailLimit
                /\ IsPrefix(details, escaped)
                /\ Len(details) < DetailLimit => details = escaped

\* A text that holds phrases of the disk and of the extractor-outage test is
\* reported under the earlier one, disk space.
C29_Witness ==
    /\ x_msg = Result(<<"disk", "">>)
    /\ MatchingCategories(x_in) = {5, 6}

\* The modification time of entry i of the directory.
Mtime(i) == x_dir.entries[i].mtime

\* C30: for every directory, _find_latest_file returns a file with the
\* latest modification time among the files whose suffix, in any case of
\* the letters, is an allowed extension of the mode; if no file matches, a
\* file with the latest modification time of all files; and None exactly when
\* the directory holds no file (entries that are not files do not count).
\* After None the task is never sent: it ends Failed with the file-not-found
\* error.
C30_LatestMatchingFile ==
    x_found # Unset =>
       LET found == x_found[1]
           files == {i \in 1..Len(x_dir.entries) :
                        x_dir.entries[i].kind = "file"}
           matching == {i \in files :
                           Lower(x_dir.entries[i].ext) \in AllowedExt(h_mode)}
       IN /\ matching # {} =>
                /\ found \in matching
                /\ \A j \in matching : Mtime(j) <= Mtime(found)
          /\ (matching = {} /\ files # {}) =>
                /\ found \in files
                /\ \A j \in files : Mtime(j) <= Mtime(found)
          /\ (found = NoFile) = (files = {})
          /\ found = NoFile =>
                /\ h_pc \in {"ytdlp", "check", "report", "returned", "raised"}
                /\ h_status \in {"downloading", "failed"}
                /\ h_pc \in {"report", "returned", "raised"} =>
                      (h_status = "failed" /\ h_text = NotFoundText)

\* Three files: a newer file of another suffix and two matching ones, of
\* which the later was returned; the task has been delivered.
C30_Witness ==
    /\ x_found # Unset
    /\ Len(x_dir.entries) = 3
    /\ \A i \in 1..3 : x_dir.entries[i].kind = "file"
    /\ \E i, j, k \in 1..3 :
          /\ x_found[1] = i
          /\ Lower(x_dir.entries[i].ext) \in AllowedExt(h_mode)
          /\ Lower(x_dir.entries[j].ext) \in AllowedExt(h_mode)
          /\ Mtime(j) < Mtime(i)
          /\ Lower(x_dir.entries[k].ext) \notin AllowedExt(h_mode)
          /\ k < i
          /\ Mtime(k) >= Mtime(i)
    /\ h_status = "completed"


\* ------------------------------------------------------------------- C31
\* A call of handle_download_callback starts, and runs to its first await.
CallbackStarts == cb_pc = "idle" /\ cb_pc' # "idle"

\* The link stored under the token of the call that starts.
LinkPressed == pending_links[cb_token']

\* C31: a pending link resolves only for the requester who created it.
\* Whenever a button is pressed, a URL is resolved only if the token is in
\* the store under the id of the user who pressed, and it is the URL stored
\* with the token; for a token stored under another user's id nothing is
\* resolved and add_download is not called.
C31_ResolvesOnlyForCreator ==
    [][CallbackStarts =>
          /\ cb_url' # NoUrl =>
                /\ cb_token' \in DOMAIN pending_links
                /\ LinkPressed.user_id = cb_user'
                /\ LinkPressed.url = cb_url'
          /\ (cb_token' \in DOMAIN pending_links
              /\ LinkPressed.user_id # cb_user') =>
                /\ cb_url' = NoUrl
                /\ cb_calls' = 0]_vars

\* A user who holds a link of their own has pressed the button of another
\* user's link, which is still stored, and got nothing.
C31_Witness ==
    /\ cb_pc = "answering"
    /\ cb_case = "foreign"
    /\ cb_url = NoUrl
    /\ cb_token \in DOMAIN pending_links
    /\ pending_links[cb_token].user_id # cb_user
    /\ \E t \in DOMAIN pending_links : pending_links[t].user_id = cb_user


\* ------------------------------------------------------------------- C32
\* The branches in which handle_download_callback turns the press down.
RejectedCases == {"malformed", "notfound", "foreign", "atcap"}

\* The count of the requester of the call that starts, as the call finds it.
CountFound == UserCount(active_tasks, queued_tasks, cb_user')

\* C32: handle_download_callback calls add_download exactly once when the
\* token resolves for the requester and the requester is below the cap, and
\* never when the data is malformed, the token is unknown or another
\* requester's, or the requester is at the cap; a press that is turned down
\* is answered exactly once.  The calls and answers of a press are counted
\* from its start to its return.
C32_OneCallOrOneAnswer ==
    /\ [](cb_calls \in {0, 1})
    /\ [](cb_case \in RejectedCases => cb_calls = 0 /\ cb_answers = 1)
    /\ [][CallbackStarts =>
             IF cb_url' # NoUrl /\ CountFound < MaxConcurrent
             THEN cb_calls' = 1 /\ cb_case' \notin RejectedCases
             ELSE cb_calls' = 0 /\ cb_case' \in RejectedCases]_vars
    /\ [][cb_pc # "idle" /\ cb_pc' # "idle" =>
             cb_calls' = cb_calls /\ cb_case' = cb_case]_vars
    /\ [][cb_pc = "answering" => cb_pc' \in {"answering", "idle"}]_vars

\* A requester with MaxConcurrent tasks has pressed the button of a link of
\* their own: the press was answered and add_download was not called.
C32_Witness ==
    /\ cb_pc = "answering"
    /\ cb_case = "atcap"
    /\ cb_url # NoUrl
    /\ UserCount(active_tasks, queued_tasks, cb_user) = MaxConcurrent
    /\ cb_calls = 0
    /\ cb_answers = 1


\* ------------------------------------------------------------------- C33
\* A press reaches line 128 and reads the requester's count through
\* get_user_active_downloads.
FrontEndReadsQuota ==
    CallbackStarts /\ cb_case' \in {"atcap", "badmode", "queued", "waiting"}

\* C33, as claimed: every read of the quota state is made while holding the
\* manager's lock, the reads made for the front end included: when a press
\* reads the count, the lock is held by a caller of the manager.
C33_FrontEndReadsUnderLock ==
    [][FrontEndReadsQuota => lockHolder \in {C(c) : c \in Callers}]_vars


\* ------------------------------------------------------------------- C34
\* Caller c's call is refused, or its refusal returns.
RefusalStep(c) ==
    \/ cpc[c] \in {"idle", "lockwait"} /\ cpc'[c] = "denying"
    \/ cpc[c] = "denying" /\ cpc'[c] = "idle"

\* C34: a rejected add_download changes nothing.  From the decision to
\* refuse a requester at the cap until the call returns, queued_tasks,
\* active_tasks, processing and task_counter stay as they are, whoever
\* takes a step, and the steps of the refused call leave the queue as it
\* is: no task id and no slot is used.  (A call with an invalid mode
\* returns at lines 63-65, before the first access to any of them.)
C34_RejectionChangesNothing ==
    [][\A c \in Callers :
          /\ (cpc[c] = "denying" \/ cpc'[c] = "denying") => UNCHANGED quota
          /\ RefusalStep(c) => UNCHANGED <<queue, quota>>]_vars

\* A refusal has returned: every task id given out so far belongs to a task
\* of the refused requester, who is at the cap with them.
C34_Witness ==
    \E u \in Users :
        /\ quota_ev = <<"denied", u>>
        /\ \A c \in Callers : cpc[c] = "idle"
        /\ lockHolder = NoProc
        /\ Count(u) = MaxConcurrent
        /\ task_counter = MaxConcurrent


\* ------------------------------------------------------------------- C35
\* C35, as claimed: a pending link older than pending_link_ttl_seconds is
\* never resolved: whenever a press resolves a token, the time is not later
\* than the creation time of its link plus the time-to-live.
C35_ExpiredNeverResolves ==
    [][CallbackStarts /\ cb_url' # NoUrl =>
          ~(clock > LinkPressed.created_at + PendingLinkTtl)]_vars


\* ------------------------------------------------------------------- C36
\* The tasks _mark_task_started has run for.
StartedIds == {started[i] : i \in 1..Len(started)}

\* Task t has been dequeued and executed, and its worker has let go of it.
Executed(t) ==
    /\ t \in StartedIds
    /\ t \notin TaskIdsIn(queue)
    /\ \A w \in Workers : wpc[w] = "exited" \/ wtask[w].id # t

\* C36: shutdown drains the queue.  When stop() has returned, every task
\* admitted (and so enqueued) before stop() put its first sentinel has been
\* dequeued and executed and is held by no worker; and if no task was
\* admitted after that moment, the queue is empty and every requester's
\* queued count is zero.
C36_ShutdownDrains ==
    spc = "done" =>
        /\ \A t \in 1..stop_mark : Executed(t)
        /\ task_counter = stop_mark =>
              /\ queue = <<>>
              /\ \A u \in Users : GetQueued(queued_tasks, u) = 0

\* stop() was called after MaxTasks tasks had been admitted and has
\* returned; no task was admitted in between, and the queue is empty.
C36_Witness ==
    /\ spc = "done"
    /\ stop_mark = MaxTasks
    /\ task_counter = stop_mark
    /\ StartedIds = 1..MaxTasks
    /\ queue = <<>>


\* ------------------------------------------------------------------- C37
\* C37, as claimed: a task whose disk-space check fails ends Failed without
\* a retrieval or a delivery call (no operation is recorded, no file is
\* held, and the first status message was never sent), and when its failure
\* has been reported to the requester the message is the one of the
\* "insufficient disk space" category.
C37_NoDiskReportedAsNoDisk ==
    h_err = "nodisk" =>
        /\ h_status = "failed"
        /\ h_ops = <<>>
        /\ h_file = "none"
        /\ ~h_status_msg
        /\ h_pc \in {"report", "returned", "raised"}
        /\ h_pc = "returned" => h_reported = "disk"

====
